---- MODULE Spec2Model ----
(***************************************************************************)
(* Outfit completion search of the Outfit_predict backend:                 *)
(* ImageSearchEngine.find_similar_outfit_v2 and find_similar_outfit        *)
(* (backend/app/ml/image_search.py) over the "outfit" collection of the    *)
(* vector index (backend/app/storage/qdrant_client.py).                    *)
(*                                                                         *)
(* Embeddings are integer vectors; a similarity is their dot product, so   *)
(* 1 stands for 1.0.  A completeness score is the exact quotient           *)
(* num / den of the mean, kept as a record [num, den] with den > 0.        *)
(***************************************************************************)
EXTENDS Integers, Sequences, FiniteSets, TLC

\* ---------------------------------------------------------------- bounds
MaxWardrobe == 2

MaxItems == 2

\* the boxes of one prediction
MaxBoxes == 3

\* ------------------------------------------------------- program constants
\* outfit_scores.append(-10000) for an outfit item without a wardrobe match
GapScore == -10000

\* search_vectors(..., limit=50, ...) in Stage 1 of find_similar_outfit
SearchLimit == 50

\* Python's None
Null == "None"

\* r.payload.get("clothing_type", "unknown")
Unknown == "unknown"

\* a payload without the key clothing_type
NoType == "<absent>"

\* ------------------------------------------------------------ input sets
OutfitIds == {"o1", "o2"}

UserIds == {"u1", "u2"}

ImageIds == {"i1", "i2"}

\* the order in which new rows get their ids
OutfitIdOrder == <<"o1", "o2">>

ImageIdOrder == <<"i1", "i2">>

\* the requests served at the same time
Slots == {1, 2}

\* wardrobe images with their clothing type, named by their (unnormalised)
\* encoder output
WardrobeItems ==
    { [ctype |-> "shirt", vec |-> <<1, 0>>],
      [ctype |-> "shirt", vec |-> <<0, -2>>],
      [ctype |-> "unknown", vec |-> <<2, 0>>] }

\* points of the outfit collection: unit vectors (the collection is created
\* with Distance.COSINE) and a payload with or without clothing_type
OutfitItems ==
    { [ctype |-> "shirt", vec |-> <<1, 0>>],
      [ctype |-> "shirt", vec |-> <<0, 1>>],
      [ctype |-> "pants", vec |-> <<0, 1>>],
      [ctype |-> NoType, vec |-> <<1, 0>>] }

\* contents of the second catalog outfit
SecondOutfits ==
    { << >>,
      << [ctype |-> "shirt", vec |-> <<1, 0>>] >>,
      << [ctype |-> "pants", vec |-> <<0, 1>>],
         [ctype |-> "shirt", vec |-> <<0, 1>>] >> }

\* limit_outfits
Limits == {1, 2}

\* score_threshold of find_similar_outfit, in hundredths: the default 0.35
\* and a threshold no cosine reaches
Thresholds == {35, 101}

SeqsUpTo(S, n) == UNION { [1..k -> S] : k \in 0..n }

\* lists of distinct outfit ids
RECURSIVE Perms(_)
Perms(S) ==
    IF S = {} THEN { << >> }
    ELSE UNION { { <<x>> \o p : p \in Perms(S \ {x}) } : x \in S }

SampledLists == UNION { Perms(S) : S \in SUBSET OutfitIds }

\* the detections one call of get_segment_images goes through
MaxSegments == 2

\* the identifiers in the body of one subset search
MaxIdentifiers == 2

\* the seconds the wall clock goes through
MaxSeconds == 1

\* wardrobe_object_names[j]
ObjectName(j) == <<"wardrobe", j>>

\* ------------------------------------------------------------ arithmetic
\* np.dot of two vectors
RECURSIVE DotFrom(_, _, _)
DotFrom(a, b, k) ==
    IF k > Len(a) THEN 0 ELSE a[k] * b[k] + DotFrom(a, b, k + 1)

Dot(a, b) == DotFrom(a, b, 1)

RECURSIVE SumSeq(_)
SumSeq(s) == IF s = << >> THEN 0 ELSE Head(s) + SumSeq(Tail(s))

\* float(np.mean(outfit_scores))
Mean(scores) == [num |-> SumSeq(scores), den |-> Len(scores)]

Zero == [num |-> 0, den |-> 1]

\* comparison of two quotients with positive denominators
Greater(a, b) == a.num * b.den > b.num * a.den

SameValue(a, b) == a.num * b.den = b.num * a.den

Abs(x) == IF x < 0 THEN -x ELSE x

\* Euclidean norm of a vector with a single non-zero component
Norm(v) == SumSeq([k \in 1..Len(v) |-> Abs(v[k])])

\* ---------------------------------------------------------- vector index
VARIABLES
    outfit_collection,      \* outfit_id -> the outfit's points, in scroll order
    pc,                     \* "idle", "rank", "done", "raised"
    mode,                   \* "v2", "v1" or Null
    images,                 \* the wardrobe: (image, clothing_type) pairs
    wardrobe_object_names,
    candidates,             \* sampled_outfit_ids, or candidate_outfit_ids in iteration order
    limit_outfits,
    score_threshold,
    wardrobe_embeddings,
    k,                      \* position of the loop over the candidates
    ranked_outfits,
    result,                 \* the returned list, Null before the return
    error,                  \* the exception raised, Null if none
    calls                   \* calls made so far: encoder, search_vectors, get_outfit_vectors

searchVars == << outfit_collection, pc, mode, images, wardrobe_object_names, candidates,
                 limit_outfits, score_threshold, wardrobe_embeddings, k, ranked_outfits,
                 result, error, calls >>

\* ------------------------------------------- metadata store and requests
VARIABLES
    outfit_table,           \* Outfit rows: outfit id -> owner, "deleted", Null if never created
    image_table,            \* Image rows: image id -> owner, "deleted", Null if never created
    wardrobe_collection,    \* the points of the wardrobe collection
    requests,               \* the HTTP requests in progress, one per slot
    outfit_files            \* blob store: the outfit ids whose image object is stored

storeVars == << outfit_table, image_table, wardrobe_collection, requests, outfit_files >>

\* ------------------- index client, second search call, clothing detector
VARIABLES
    index,                  \* QdrantService: collection name -> the points it holds
    reply,                  \* the last QdrantService call and its outcome
    other_call,             \* the locals of a second search call
    label,                  \* the detections of the YOLO model, in detection order
    parts,                  \* what get_clothes_from_img returned
    detected                \* get_clothes_from_img has returned

clientVars == << index, reply >>

\* --------------------------------------------- saved outfits
VARIABLES
    saved_table,            \* SavedOutfit rows: records [id, user_id, outfit_id]
    caught,                 \* slot -> the exception the handler of its request caught
    split,                  \* one segmentation of an outfit image and the crops indexed from it
    subset,                 \* one search_similar_outfits_subset request
    detect,                 \* slot -> the detect-clothes request it serves
    temp_files,             \* the files under app/storage/clothing_detection
    now                     \* the wall clock, in seconds

savedVars == << saved_table, caught >>

subsetVars == << subset >>

clothingVars == << detect, temp_files, now >>

endpointVars == << savedVars, split, subsetVars, clothingVars >>

detectorVars == << label, parts, detected >>

\* what a request handler leaves alone
otherVars == << clientVars, other_call, detectorVars, endpointVars >>

\* what a search leaves alone
nonSearchVars == << storeVars, otherVars >>

vars == << searchVars, nonSearchVars >>

\* QdrantService.get_outfit_vectors: the records whose payload outfit_id matches
GetOutfitVectors(collection, outfit_id) ==
    IF outfit_id \in DOMAIN collection
    THEN [ i \in 1..Len(collection[outfit_id]) |->
             [ id |-> <<outfit_id, i>>,
               vector |-> collection[outfit_id][i].vec,
               payload |-> [ outfit_id |-> outfit_id,
                             clothing_type |-> collection[outfit_id][i].ctype ] ] ]
    ELSE << >>

\* all points of the outfit collection
AllPoints(collection) ==
    UNION { { GetOutfitVectors(collection, o)[i] :
                i \in 1..Len(collection[o]) } : o \in DOMAIN collection }

\* cosine score of a stored unit vector against a query, against a threshold
\* given in hundredths: dot / |q| >= t / 100
ClearsThreshold(query_vector, point, threshold) ==
    Dot(query_vector, point.vector) * 100 >= threshold * Norm(query_vector)

\* QdrantService.search_vectors on the outfit collection: the points scoring
\* at least score_threshold, the best `limit` of them
SearchVectors(collection, query_vector, limit, threshold) ==
    LET hits == { p \in AllPoints(collection) :
                    ClearsThreshold(query_vector, p, threshold) }
    IN  IF Cardinality(hits) <= limit THEN hits
        ELSE CHOOSE S \in SUBSET hits :
               /\ Cardinality(S) = limit
               /\ \A a \in S, b \in hits \ S :
                    Dot(query_vector, a.vector) >= Dot(query_vector, b.vector)

\* ------------------------------------------------- Stage 2, type-gated (v2)
\* r.payload.get("clothing_type", "unknown")
ClothingTypeOf(record) ==
    IF record.payload.clothing_type = NoType THEN Unknown
    ELSE record.payload.clothing_type

\* Eligible without the clothing type test
EligibleAnyType(wardrobe_types, used, j, outfit_type) ==
    j \notin used

\* Eligible without the test of used_wardrobe_indices
EligibleUsedAgain(wardrobe_types, used, j, outfit_type) ==
    wardrobe_types[j] = outfit_type

\* the test that admits wardrobe item j for an outfit item
Eligible(wardrobe_types, used, j, outfit_type) ==
    wardrobe_types[j] = outfit_type /\ j \notin used

\* the inner loop over the wardrobe: best = [score, idx], idx 0 for "-1"
RECURSIVE BestFrom(_, _, _, _, _, _, _)
BestFrom(wardrobe_types, embeddings, used, outfit_type, outfit_vec, j, best) ==
    IF j > Len(embeddings) THEN best
    ELSE LET similarity_score == Dot(embeddings[j], outfit_vec)
             better == /\ Eligible(wardrobe_types, used, j, outfit_type)
                       /\ similarity_score > best.score
         IN  BestFrom(wardrobe_types, embeddings, used, outfit_type, outfit_vec, j + 1,
                      IF better THEN [score |-> similarity_score, idx |-> j] ELSE best)

\* a search of the wardrobe that keeps the last of the equal maxima
BestMatchLast(wardrobe_types, embeddings, used, outfit_type, outfit_vec) ==
    LET ok == { j \in 1..Len(embeddings) :
                  /\ Eligible(wardrobe_types, used, j, outfit_type)
                  /\ Dot(embeddings[j], outfit_vec) > -1 }
    IN  IF ok = {} THEN [score |-> -1, idx |-> 0]
        ELSE LET j == CHOOSE a \in ok :
                        /\ \A b \in ok :
                             Dot(embeddings[b], outfit_vec) <= Dot(embeddings[a], outfit_vec)
                        /\ \A b \in ok :
                             b > a => Dot(embeddings[b], outfit_vec) < Dot(embeddings[a], outfit_vec)
             IN  [score |-> Dot(embeddings[j], outfit_vec), idx |-> j]

BestMatch(wardrobe_types, embeddings, used, outfit_type, outfit_vec) ==
    BestFrom(wardrobe_types, embeddings, used, outfit_type, outfit_vec, 1,
             [score |-> -1, idx |-> 0])

\* a MatchedItem that carries suggestion links next to its wardrobe fields
MatchedItemWithLinks(outfit_item_id, idx, names, score) ==
    [ outfit_item_id |-> outfit_item_id,
      score |-> score,
      wardrobe_image_index |-> idx - 1,
      wardrobe_image_object_name |-> names[idx],
      suggested_item_product_link |-> "product",
      suggested_item_image_link |-> "image" ]

\* MatchedItem(outfit_item_id, wardrobe_image_index, wardrobe_image_object_name, score)
MatchedItem(outfit_item_id, idx, names, score) ==
    [ outfit_item_id |-> outfit_item_id,
      score |-> score,
      wardrobe_image_index |-> idx - 1,
      wardrobe_image_object_name |-> names[idx],
      suggested_item_product_link |-> Null,
      suggested_item_image_link |-> Null ]

\* a loop body that scores an unmatched outfit item 0
RecordGapAsZero(acc, record, names, best) ==
    IF best.idx # 0
    THEN [ matched_items |-> Append(acc.matched_items,
                                    MatchedItem(record.id, best.idx, names, best.score)),
           outfit_scores |-> Append(acc.outfit_scores, best.score),
           used |-> acc.used \cup {best.idx} ]
    ELSE [ acc EXCEPT !.outfit_scores = Append(@, 0) ]

\* what the loop over the outfit items does with the outcome of one item
RecordMatchV2(acc, record, names, best) ==
    IF best.idx # 0
    THEN [ matched_items |-> Append(acc.matched_items,
                                    MatchedItem(record.id, best.idx, names, best.score)),
           outfit_scores |-> Append(acc.outfit_scores, best.score),
           used |-> acc.used \cup {best.idx} ]
    ELSE [ acc EXCEPT !.outfit_scores = Append(@, GapScore) ]

\* the loop over the outfit items
RECURSIVE MatchItemsV2(_, _, _, _, _, _)
MatchItemsV2(records, wardrobe_types, embeddings, names, i, acc) ==
    IF i > Len(records) THEN acc
    ELSE MatchItemsV2(records, wardrobe_types, embeddings, names, i + 1,
            RecordMatchV2(acc, records[i], names,
                BestMatch(wardrobe_types, embeddings, acc.used,
                          ClothingTypeOf(records[i]), records[i].vector)))

\* the scoring of one candidate outfit: matched_items, outfit_scores and
\* used_wardrobe_indices start empty
ScoreOutfitV2(records, wardrobe_types, embeddings, names) ==
    MatchItemsV2(records, wardrobe_types, embeddings, names, 1,
                 [ matched_items |-> << >>, outfit_scores |-> << >>, used |-> {} ])

CompletenessV2(outfit_scores) ==
    IF outfit_scores # << >> THEN Mean(outfit_scores) ELSE Zero

RecommendedOutfit(outfit_id, completeness_score, matches) ==
    [ outfit_id |-> outfit_id,
      completeness_score |-> completeness_score,
      matches |-> matches ]

\* ------------------------------------------------- Stage 2, untyped (v1)
\* np.argmax of a column of the similarity matrix: the first maximum
RECURSIVE ArgMaxFrom(_, _, _, _)
ArgMaxFrom(embeddings, outfit_vec, j, best) ==
    IF j > Len(embeddings) THEN best
    ELSE ArgMaxFrom(embeddings, outfit_vec, j + 1,
            IF Dot(embeddings[j], outfit_vec) > Dot(embeddings[best], outfit_vec)
            THEN j ELSE best)

\* an argmax that keeps the last maximum instead of the first
ArgMaxLast(embeddings, outfit_vec) ==
    CHOOSE j \in 1..Len(embeddings) :
        /\ \A i \in 1..Len(embeddings) :
             Dot(embeddings[i], outfit_vec) <= Dot(embeddings[j], outfit_vec)
        /\ \A i \in (j + 1)..Len(embeddings) :
             Dot(embeddings[i], outfit_vec) < Dot(embeddings[j], outfit_vec)

ArgMax(embeddings, outfit_vec) == ArgMaxFrom(embeddings, outfit_vec, 2, 1)

RECURSIVE MatchItemsV1(_, _, _, _, _)
MatchItemsV1(records, embeddings, names, j, acc) ==
    IF j > Len(records) THEN acc
    ELSE LET best_wardrobe_idx == ArgMax(embeddings, records[j].vector)
             best_score == Dot(embeddings[best_wardrobe_idx], records[j].vector)
         IN  MatchItemsV1(records, embeddings, names, j + 1,
                [ matched_items |-> Append(acc.matched_items,
                      MatchedItem(records[j].id, best_wardrobe_idx, names, best_score)),
                  outfit_scores |-> Append(acc.outfit_scores, best_score) ])

ScoreOutfitV1(records, embeddings, names) ==
    MatchItemsV1(records, embeddings, names, 1,
                 [ matched_items |-> << >>, outfit_scores |-> << >> ])

\* ------------------------------------------------------------- ranking
\* list.sort(key=completeness_score, reverse=True): stable, descending
RECURSIVE InsertDesc(_, _)
InsertDesc(sorted, x) ==
    IF sorted = << >> THEN << x >>
    ELSE IF Greater(x.completeness_score, Head(sorted).completeness_score)
         THEN << x >> \o sorted
         ELSE << Head(sorted) >> \o InsertDesc(Tail(sorted), x)

RECURSIVE SortDesc(_)
SortDesc(s) ==
    IF s = << >> THEN << >>
    ELSE InsertDesc(SortDesc(SubSeq(s, 1, Len(s) - 1)), s[Len(s)])

\* ranked_outfits[:limit_outfits]
Truncate(s, limit) == SubSeq(s, 1, IF Len(s) < limit THEN Len(s) ELSE limit)

\* the truncation without the sort
TruncateUnsorted(outfits, limit) == Truncate(outfits, limit)

RankAndTruncate(outfits, limit) == Truncate(SortDesc(outfits), limit)

\* ------------------------------------------------------------- the calls
CollectionNames == {"outfit", "wardrobe"}

\* no QdrantService call made yet
NoReply ==
    [ op |-> Null, selector |-> Null, point_id |-> Null, points |-> {},
      raised |-> Null, value |-> {}, before |-> [c \in CollectionNames |-> {}] ]

\* no second call
NoCall ==
    [ pc |-> "idle", mode |-> Null, images |-> << >>, wardrobe_object_names |-> << >>,
      candidates |-> << >>, limit_outfits |-> 0, k |-> 0, ranked_outfits |-> << >>,
      result |-> << >> ]

\* no segmentation made yet
NoSplit ==
    [ pc |-> "idle", segments |-> << >>, segment_images |-> << >>, cloth_names |-> << >>,
      clothing_info |-> << >> ]

\* no subset search requested
NoSubset ==
    [ pc |-> "idle", user |-> Null, id_type |-> Null, identifiers |-> << >>, n |-> 0,
      wardrobe_object_names |-> << >>, engine_called |-> FALSE, engine_names |-> << >>,
      status |-> 0 ]

\* a slot that serves no detect-clothes request
NoDetect == [ pc |-> "idle", temp_dir |-> << >>, filename |-> Null, status |-> 0 ]

\* no request of the other endpoints made yet
IdleEndpoints ==
    /\ saved_table = {}
    /\ caught = [s \in Slots |-> Null]
    /\ split = NoSplit
    /\ subset = NoSubset
    /\ detect = [s \in Slots |-> NoDetect]
    /\ temp_files = {}
    /\ now = 0

\* the parts of the model a specification does not use
IdleRest ==
    /\ IdleEndpoints
    /\ index = [c \in CollectionNames |-> {}]
    /\ reply = NoReply
    /\ other_call = NoCall
    /\ label = << >>
    /\ parts = << >>
    /\ detected = FALSE

\* a slot that serves no request
NoRequest ==
    [ op |-> Null, pc |-> "idle", user |-> Null, target |-> Null, crops |-> 0,
      status |-> 0 ]

NoCalls == [embed |-> 0, search |-> 0, scroll |-> 0]

Init ==
    /\ outfit_collection \in
         { [o \in OutfitIds |-> IF o = "o1" THEN first ELSE second] :
             first \in SeqsUpTo(OutfitItems, MaxItems), second \in SecondOutfits }
    /\ pc = "idle"
    /\ mode = Null
    /\ images = << >>
    /\ wardrobe_object_names = << >>
    /\ candidates = << >>
    /\ limit_outfits = 0
    /\ score_threshold = 0
    /\ wardrobe_embeddings = << >>
    /\ k = 0
    /\ ranked_outfits = << >>
    /\ result = Null
    /\ error = Null
    /\ calls = NoCalls
    /\ outfit_table = [o \in OutfitIds |-> "u1"]
    /\ image_table = [i \in ImageIds |-> Null]
    /\ wardrobe_collection = {}
    /\ requests = [s \in Slots |-> NoRequest]
    /\ outfit_files = OutfitIds
    /\ IdleRest

\* the argument check of find_similar_outfit_v2
InvalidInputV2(imgs, names) ==
    imgs = << >> \/ names = << >> \/ Len(imgs) # Len(names)

\* an argument check that only refuses the empty wardrobe
InvalidInputEmptyOnly(imgs, names) == imgs = << >>

\* the argument check of find_similar_outfit
InvalidInputV1(imgs, names) ==
    imgs = << >> \/ Len(imgs) # Len(names)

\* get_image_embeddings: one encoder output per image
GetImageEmbeddings(imgs) == [ j \in 1..Len(imgs) |-> imgs[j].vec ]

WardrobeTypes(imgs) == [ j \in 1..Len(imgs) |-> imgs[j].ctype ]

Raise(exception) ==
    /\ pc' = "raised"
    /\ error' = exception
    /\ UNCHANGED << candidates, wardrobe_embeddings, k, ranked_outfits, result, calls >>

Return(value) ==
    /\ pc' = "done"
    /\ result' = value
    /\ UNCHANGED << error >>

\* find_similar_outfit_v2 up to the loop over the sampled outfits
CallV2(imgs, names, sampled, limit) ==
    /\ UNCHANGED nonSearchVars
    /\ pc = "idle"
    /\ mode' = "v2"
    /\ images' = imgs
    /\ wardrobe_object_names' = names
    /\ limit_outfits' = limit
    /\ UNCHANGED << outfit_collection, score_threshold >>
    /\ IF InvalidInputV2(imgs, names)
       THEN Raise("ValueError")
       ELSE /\ wardrobe_embeddings' = GetImageEmbeddings(imgs)
            /\ calls' = [calls EXCEPT !.embed = @ + 1]
            /\ candidates' = sampled
            /\ ranked_outfits' = << >>
            /\ k' = 1
            /\ IF wardrobe_embeddings' = << >>
               THEN Return(<< >>)
               ELSE /\ pc' = "rank"
                    /\ UNCHANGED << result, error >>

\* a loop that never skips
NeverSkipped(records) == FALSE

\* the skip of a candidate without records
NoRecords(records) == records = << >>

\* a test that lets every scored candidate into ranked_outfits
AlwaysAdded(matched_items) == TRUE

\* `if matched_items:` before ranked_outfits.append
AnyMatch(matched_items) == matched_items # << >>

\* one iteration of the loop over the sampled outfits
ScoreNextV2 ==
    /\ UNCHANGED nonSearchVars
    /\ pc = "rank" /\ mode = "v2"
    /\ k <= Len(candidates)
    /\ LET outfit_id == candidates[k]
           outfit_item_records == GetOutfitVectors(outfit_collection, outfit_id)
           scored == ScoreOutfitV2(outfit_item_records, WardrobeTypes(images),
                                   wardrobe_embeddings, wardrobe_object_names)
       IN  /\ calls' = [calls EXCEPT !.scroll = @ + 1]
           /\ ranked_outfits' =
                IF NoRecords(outfit_item_records) THEN ranked_outfits
                ELSE IF AnyMatch(scored.matched_items)
                     THEN Append(ranked_outfits,
                                 RecommendedOutfit(outfit_id,
                                     CompletenessV2(scored.outfit_scores),
                                     scored.matched_items))
                     ELSE ranked_outfits
    /\ k' = k + 1
    /\ UNCHANGED << outfit_collection, pc, mode, images, wardrobe_object_names,
                    candidates, limit_outfits, score_threshold, wardrobe_embeddings,
                    result, error >>

\* the sort, the truncation and the return of find_similar_outfit_v2
FinishV2 ==
    /\ UNCHANGED nonSearchVars
    /\ pc = "rank" /\ mode = "v2"
    /\ k > Len(candidates)
    /\ Return(RankAndTruncate(ranked_outfits, limit_outfits))
    /\ UNCHANGED << outfit_collection, mode, images, wardrobe_object_names, candidates,
                    limit_outfits, score_threshold, wardrobe_embeddings, k,
                    ranked_outfits, calls >>

\* a Stage 1 that takes every indexed outfit, whatever its score
CandidateOutfitIdsUnfiltered(collection, embeddings, threshold) ==
    { o \in DOMAIN collection : collection[o] # << >> }

\* a Stage 1 that searches the neighbours of the first wardrobe item only
CandidateOutfitIdsFirstItem(collection, embeddings, threshold) ==
    { p.payload.outfit_id :
        p \in SearchVectors(collection, embeddings[1], SearchLimit, threshold) }

\* Stage 1 of find_similar_outfit: the outfit ids of the neighbours of every
\* wardrobe embedding
CandidateOutfitIds(collection, embeddings, threshold) ==
    UNION { { p.payload.outfit_id :
                p \in SearchVectors(collection, embeddings[i], SearchLimit, threshold) } :
            i \in 1..Len(embeddings) }

\* find_similar_outfit up to the loop over the candidate outfits
CallV1(imgs, names, threshold, limit) ==
    /\ UNCHANGED nonSearchVars
    /\ pc = "idle"
    /\ mode' = "v1"
    /\ images' = imgs
    /\ wardrobe_object_names' = names
    /\ limit_outfits' = limit
    /\ score_threshold' = threshold
    /\ UNCHANGED << outfit_collection >>
    /\ IF InvalidInputV1(imgs, names)
       THEN Raise("ValueError")
       ELSE /\ wardrobe_embeddings' = GetImageEmbeddings(imgs)
            /\ ranked_outfits' = << >>
            /\ k' = 1
            /\ IF wardrobe_embeddings' = << >>
               THEN /\ calls' = [calls EXCEPT !.embed = @ + 1]
                    /\ candidates' = << >>
                    /\ Return(<< >>)
               ELSE LET candidate_outfit_ids ==
                            CandidateOutfitIds(outfit_collection, wardrobe_embeddings',
                                               threshold)
                    IN  /\ calls' = [calls EXCEPT !.embed = @ + 1,
                                                  !.search = @ + Len(wardrobe_embeddings')]
                        \* a set is iterated in an order the caller does not control
                        /\ candidates' \in Perms(candidate_outfit_ids)
                        /\ IF candidate_outfit_ids = {}
                           THEN Return(<< >>)
                           ELSE /\ pc' = "rank"
                                /\ UNCHANGED << result, error >>

\* one iteration of the loop over the candidate outfits
ScoreNextV1 ==
    /\ UNCHANGED nonSearchVars
    /\ pc = "rank" /\ mode = "v1"
    /\ k <= Len(candidates)
    /\ LET outfit_id == candidates[k]
           outfit_item_records == GetOutfitVectors(outfit_collection, outfit_id)
           scored == ScoreOutfitV1(outfit_item_records, wardrobe_embeddings,
                                   wardrobe_object_names)
       IN  /\ calls' = [calls EXCEPT !.scroll = @ + 1]
           /\ ranked_outfits' =
                IF NoRecords(outfit_item_records) THEN ranked_outfits
                ELSE Append(ranked_outfits,
                            RecommendedOutfit(outfit_id, Mean(scored.outfit_scores),
                                              scored.matched_items))
    /\ k' = k + 1
    /\ UNCHANGED << outfit_collection, pc, mode, images, wardrobe_object_names,
                    candidates, limit_outfits, score_threshold, wardrobe_embeddings,
                    result, error >>

\* the sort, the truncation and the return of find_similar_outfit
FinishV1 ==
    /\ UNCHANGED nonSearchVars
    /\ pc = "rank" /\ mode = "v1"
    /\ k > Len(candidates)
    /\ Return(RankAndTruncate(ranked_outfits, limit_outfits))
    /\ UNCHANGED << outfit_collection, mode, images, wardrobe_object_names, candidates,
                    limit_outfits, score_threshold, wardrobe_embeddings, k,
                    ranked_outfits, calls >>

\* get_outfit_vectors raising in the loop of either search (the scroll request
\* fails): find_similar_outfit_v2 has no handler around the loop, the handler
\* of find_similar_outfit logs and re-raises, so the exception leaves the call
GetOutfitVectorsRaises ==
    /\ UNCHANGED nonSearchVars
    /\ pc = "rank"
    /\ k <= Len(candidates)
    /\ calls' = [calls EXCEPT !.scroll = @ + 1]
    /\ pc' = "raised"
    /\ error' = "UnexpectedResponse"
    /\ UNCHANGED << outfit_collection, mode, images, wardrobe_object_names, candidates,
                    limit_outfits, score_threshold, wardrobe_embeddings, k,
                    ranked_outfits, result >>

\* QdrantService.delete_outfit_vectors, run for another request while a search
\* is between two index calls: every point of the outfit goes.  Only outfits
\* the running search has not fetched yet are taken, a later deletion cannot
\* reach what the search has already read.
Unfetched == { candidates[i] : i \in k..Len(candidates) }

DeleteOutfitVectors(outfit_id) ==
    /\ UNCHANGED nonSearchVars
    /\ pc = "rank"
    /\ outfit_id \in Unfetched
    /\ outfit_collection[outfit_id] # << >>
    /\ outfit_collection' = [outfit_collection EXCEPT ![outfit_id] = << >>]
    /\ UNCHANGED << pc, mode, images, wardrobe_object_names, candidates, limit_outfits,
                    score_threshold, wardrobe_embeddings, k, ranked_outfits, result,
                    error, calls >>

ConcurrentDelete == \E outfit_id \in OutfitIds : DeleteOutfitVectors(outfit_id)

\* the object names a caller passes: one per image, or a list of another length
NameLists == { [ j \in 1..n |-> ObjectName(j) ] : n \in 0..MaxWardrobe }

Wardrobes == SeqsUpTo(WardrobeItems, MaxWardrobe)

StartV2 ==
    /\ pc = "idle"
    /\ \E imgs \in Wardrobes, names \in NameLists, sampled \in SampledLists, limit \in Limits :
          CallV2(imgs, names, sampled, limit)

StartV1 ==
    /\ pc = "idle"
    /\ \E imgs \in Wardrobes, names \in NameLists, threshold \in Thresholds, limit \in Limits :
          CallV1(imgs, names, threshold, limit)

Next ==
    \/ StartV2
    \/ ScoreNextV2
    \/ FinishV2
    \/ StartV1
    \/ ScoreNextV1
    \/ FinishV1
    \/ GetOutfitVectorsRaises
    \/ ConcurrentDelete

Spec == Init /\ [][Next]_vars

\* ------------------------------------------------ the outfit endpoints
InitStores ==
    /\ outfit_collection = [o \in OutfitIds |-> << >>]
    /\ pc = "idle"
    /\ mode = Null
    /\ images = << >>
    /\ wardrobe_object_names = << >>
    /\ candidates = << >>
    /\ limit_outfits = 0
    /\ score_threshold = 0
    /\ wardrobe_embeddings = << >>
    /\ k = 0
    /\ ranked_outfits = << >>
    /\ result = Null
    /\ error = Null
    /\ calls = NoCalls
    /\ outfit_table = [o \in OutfitIds |-> Null]
    /\ image_table = [i \in ImageIds |-> Null]
    /\ wardrobe_collection = {}
    /\ requests = [s \in Slots |-> NoRequest]
    /\ outfit_files = {}
    /\ IdleRest

\* a slot takes a request when it serves none
Free(s) == requests[s].pc \in {"idle", "done"}

\* the id a new row gets: one never given before
HasFresh(table, order) == \E n \in 1..Len(order) : table[order[n]] = Null

Fresh(table, order) ==
    order[CHOOSE n \in 1..Len(order) :
            /\ table[order[n]] = Null
            /\ \A m \in 1..(n - 1) : table[order[m]] # Null]

\* the request ends with an HTTP status
End(s, status) ==
    requests' = [requests EXCEPT ![s].pc = "done", ![s].status = status]

Goto(s, step) ==
    requests' = [requests EXCEPT ![s].pc = step]

\* the point add_image_to_index upserts for the i-th crop of an outfit
CropOf(i) ==
    IF i % 2 = 1 THEN [ctype |-> "shirt", vec |-> <<1, 0>>]
    ELSE [ctype |-> "pants", vec |-> <<0, 1>>]

\* split_outfit_to_clothes: the content type check and the read of the upload
StartSplit(s, user, is_image) ==
    /\ Free(s)
    /\ UNCHANGED otherVars
    /\ UNCHANGED outfit_files
    /\ requests' = [requests EXCEPT ![s] =
         [ op |-> "split_outfit_to_clothes",
           pc |-> IF is_image THEN "create" ELSE "done",
           user |-> user, target |-> Null, crops |-> 0,
           status |-> IF is_image THEN 0 ELSE 400 ]]
    /\ UNCHANGED << searchVars, outfit_table, image_table, wardrobe_collection >>

\* minio.save_file and outfit_crud.create_outfit: the row is committed before
\* anything is segmented or indexed
CreateOutfit(s) ==
    /\ requests[s].op = "split_outfit_to_clothes" /\ requests[s].pc = "create"
    /\ UNCHANGED otherVars
    /\ UNCHANGED << searchVars, image_table, wardrobe_collection >>
    /\ \/ /\ HasFresh(outfit_table, OutfitIdOrder)
          /\ LET outfit_id == Fresh(outfit_table, OutfitIdOrder)
             IN  /\ outfit_table' = [outfit_table EXCEPT ![outfit_id] = requests[s].user]
                 /\ outfit_files' = outfit_files \cup {outfit_id}
                 /\ requests' = [requests EXCEPT ![s].pc = "segment",
                                                 ![s].target = outfit_id]
       \/ \* the blob store or the database raises
          /\ End(s, 500)
          /\ UNCHANGED << outfit_table, outfit_files >>

\* segmentation_model.get_segment_images and the two tests for no detection
Segment(s) ==
    /\ requests[s].op = "split_outfit_to_clothes" /\ requests[s].pc = "segment"
    /\ UNCHANGED otherVars
    /\ UNCHANGED outfit_files
    /\ UNCHANGED << searchVars, outfit_table, image_table, wardrobe_collection >>
    /\ \/ \E n \in 1..MaxItems :
            requests' = [requests EXCEPT ![s].pc = "index", ![s].crops = n]
       \/ End(s, 422)
       \/ \* the segmentation raises
          End(s, 500)

\* one iteration of the loop over the crops, and the return after the last
IndexCrop(s) ==
    /\ requests[s].op = "split_outfit_to_clothes" /\ requests[s].pc = "index"
    /\ UNCHANGED otherVars
    /\ UNCHANGED outfit_files
    /\ UNCHANGED << pc, mode, images, wardrobe_object_names, candidates, limit_outfits,
                    score_threshold, wardrobe_embeddings, k, ranked_outfits, result,
                    error, calls, outfit_table, image_table, wardrobe_collection >>
    /\ IF requests[s].crops = 0
       THEN /\ End(s, 200)
            /\ UNCHANGED outfit_collection
       ELSE \/ \* cropped_img.size == 0: continue
               /\ requests' = [requests EXCEPT ![s].crops = @ - 1]
               /\ UNCHANGED outfit_collection
            \/ \* add_image_to_index upserts the point
               /\ outfit_collection' =
                    [outfit_collection EXCEPT ![requests[s].target] =
                        Append(@, CropOf(Len(@) + 1))]
               /\ requests' = [requests EXCEPT ![s].crops = @ - 1]
            \/ \* add_image_to_index raises: no handler around the loop
               /\ End(s, 500)
               /\ UNCHANGED outfit_collection

\* delete_outfit is called for an outfit id
StartDeleteOutfit(s, user, outfit_id) ==
    /\ Free(s)
    /\ UNCHANGED otherVars
    /\ UNCHANGED outfit_files
    /\ requests' = [requests EXCEPT ![s] =
         [ op |-> "delete_outfit", pc |-> "get", user |-> user, target |-> outfit_id,
           crops |-> 0, status |-> 0 ]]
    /\ UNCHANGED << searchVars, outfit_table, image_table, wardrobe_collection >>

\* a row test that looks at the outfit id only
ExistsForAnyUser(row_owner, user_id) == row_owner \in UserIds

\* select(Outfit).where(Outfit.id == outfit_id, Outfit.user_id == user_id)
OwnedBy(row_owner, user_id) == row_owner = user_id

\* outfit_crud.get_outfit(db, outfit_id, current_user.id) and the 404
GetOutfit(s) ==
    /\ requests[s].op = "delete_outfit" /\ requests[s].pc = "get"
    /\ UNCHANGED otherVars
    /\ UNCHANGED outfit_files
    /\ UNCHANGED << searchVars, outfit_table, image_table, wardrobe_collection >>
    /\ \/ IF OwnedBy(outfit_table[requests[s].target], requests[s].user)
          THEN Goto(s, "index")
          ELSE End(s, 404)
       \/ \* the database raises
          End(s, 500)

\* qdrant = QdrantService() and qdrant.delete_outfit_vectors(outfit_id): a
\* False result is logged only, an exception of the construction reaches the
\* handler of the whole body
DeleteVectors(s) ==
    /\ requests[s].op = "delete_outfit" /\ requests[s].pc = "index"
    /\ UNCHANGED otherVars
    /\ UNCHANGED outfit_files
    /\ UNCHANGED << pc, mode, images, wardrobe_object_names, candidates, limit_outfits,
                    score_threshold, wardrobe_embeddings, k, ranked_outfits, result,
                    error, calls, outfit_table, image_table, wardrobe_collection >>
    /\ \/ \* every point of the outfit is deleted
          /\ outfit_collection' = [outfit_collection EXCEPT ![requests[s].target] = << >>]
          /\ Goto(s, "row")
       \/ \* delete_outfit_vectors caught an exception and returned False
          /\ UNCHANGED outfit_collection
          /\ Goto(s, "row")
       \/ \* QdrantService() raised
          /\ UNCHANGED outfit_collection
          /\ End(s, 500)

\* minio.delete_file (its result is logged only) and outfit_crud.delete_outfit
DeleteOutfitRow(s) ==
    /\ requests[s].op = "delete_outfit" /\ requests[s].pc = "row"
    /\ UNCHANGED otherVars
    /\ UNCHANGED << searchVars, image_table, wardrobe_collection >>
    /\ \/ outfit_files' = outfit_files \ {requests[s].target}
       \/ \* delete_file caught an exception and returned False
          UNCHANGED outfit_files
    /\ \/ IF OwnedBy(outfit_table[requests[s].target], requests[s].user)
          THEN /\ outfit_table' = [outfit_table EXCEPT ![requests[s].target] = "deleted"]
               /\ End(s, 204)
          ELSE /\ UNCHANGED outfit_table
               /\ End(s, 404)
       \/ \* the database raises
          /\ UNCHANGED outfit_table
          /\ End(s, 500)

NextOutfits ==
    \/ \E s \in Slots, user \in UserIds, is_image \in BOOLEAN : StartSplit(s, user, is_image)
    \/ \E s \in Slots : CreateOutfit(s)
    \/ \E s \in Slots : Segment(s)
    \/ \E s \in Slots : IndexCrop(s)
    \/ \E s \in Slots, user \in UserIds, outfit_id \in OutfitIds :
          StartDeleteOutfit(s, user, outfit_id)
    \/ \E s \in Slots : GetOutfit(s)
    \/ \E s \in Slots : DeleteVectors(s)
    \/ \E s \in Slots : DeleteOutfitRow(s)

SpecOutfits == InitStores /\ [][NextOutfits]_vars

\* ------------------------------------------------- the image endpoints
\* the point of a wardrobe image: its id is the image id
WardrobePoint(image_id, user_id, object_name) ==
    [ id |-> image_id, user_id |-> user_id, object_name |-> object_name ]

\* ImageSearchEngine.add_wardrobe_image_to_index: upsert of the image's point
AddWardrobeImageToIndex(collection, image_id, user_id, object_name) ==
    { p \in collection : p.id # image_id }
        \cup { WardrobePoint(image_id, user_id, object_name) }

\* ImageSearchEngine.remove_wardrobe_image_from_index: the filtered delete of
\* QdrantService.delete_wardrobe_vectors(user_id, object_name)
RemoveWardrobeImageFromIndex(collection, user_id, object_name) ==
    { p \in collection : ~(p.user_id = user_id /\ p.object_name = object_name) }

\* upload_image: the content type check and the read of the upload
StartUpload(s, user, is_image) ==
    /\ Free(s)
    /\ UNCHANGED otherVars
    /\ UNCHANGED outfit_files
    /\ requests' = [requests EXCEPT ![s] =
         [ op |-> "upload_image",
           pc |-> IF is_image THEN "save" ELSE "done",
           user |-> user, target |-> Null, crops |-> 0,
           status |-> IF is_image THEN 0 ELSE 400 ]]
    /\ UNCHANGED << searchVars, outfit_table, image_table, wardrobe_collection >>

\* identify_clothes_type, minio.save_file_with_thumbnail and
\* crud_image.create_image; without a clothing type the index step is left out
SaveImage(s) ==
    /\ requests[s].op = "upload_image" /\ requests[s].pc = "save"
    /\ UNCHANGED otherVars
    /\ UNCHANGED outfit_files
    /\ UNCHANGED << searchVars, outfit_table, wardrobe_collection >>
    /\ \/ /\ HasFresh(image_table, ImageIdOrder)
          /\ \E classified \in BOOLEAN :
               LET image_id == Fresh(image_table, ImageIdOrder)
               IN  /\ image_table' = [image_table EXCEPT ![image_id] = requests[s].user]
                   /\ requests' = [requests EXCEPT
                        ![s].target = image_id,
                        ![s].pc = IF classified THEN "index" ELSE "done",
                        ![s].status = IF classified THEN 0 ELSE 200]
       \/ \* the classifier, the blob store or the database raises
          /\ End(s, 500)
          /\ UNCHANGED image_table

\* the guarded add_wardrobe_image_to_index call: an exception is logged only
IndexImage(s) ==
    /\ requests[s].op = "upload_image" /\ requests[s].pc = "index"
    /\ UNCHANGED otherVars
    /\ UNCHANGED outfit_files
    /\ UNCHANGED << searchVars, outfit_table, image_table >>
    /\ End(s, 200)
    /\ \/ wardrobe_collection' =
            AddWardrobeImageToIndex(wardrobe_collection, requests[s].target,
                                    requests[s].user, ObjectName(requests[s].target))
       \/ \* the call raises
          UNCHANGED wardrobe_collection

\* delete_image is called for an image id
StartDeleteImage(s, user, image_id) ==
    /\ Free(s)
    /\ UNCHANGED otherVars
    /\ UNCHANGED outfit_files
    /\ requests' = [requests EXCEPT ![s] =
         [ op |-> "delete_image", pc |-> "get", user |-> user, target |-> image_id,
           crops |-> 0, status |-> 0 ]]
    /\ UNCHANGED << searchVars, outfit_table, image_table, wardrobe_collection >>

\* crud_image.get_image(db, image_id, current_user.id) and the 404
GetImage(s) ==
    /\ requests[s].op = "delete_image" /\ requests[s].pc = "get"
    /\ UNCHANGED otherVars
    /\ UNCHANGED outfit_files
    /\ UNCHANGED << searchVars, outfit_table, image_table, wardrobe_collection >>
    /\ \/ IF image_table[requests[s].target] = requests[s].user
          THEN Goto(s, "index")
          ELSE End(s, 404)
       \/ \* the database raises
          End(s, 500)

\* the guarded remove_wardrobe_image_from_index call: an exception is logged
\* only and the deletion goes on
RemoveFromIndex(s) ==
    /\ requests[s].op = "delete_image" /\ requests[s].pc = "index"
    /\ UNCHANGED otherVars
    /\ UNCHANGED outfit_files
    /\ UNCHANGED << searchVars, outfit_table, image_table >>
    /\ Goto(s, "row")
    /\ \/ wardrobe_collection' =
            RemoveWardrobeImageFromIndex(wardrobe_collection, requests[s].user,
                                         ObjectName(requests[s].target))
       \/ \* the call fails
          UNCHANGED wardrobe_collection

\* the two minio.delete_file calls (their results are logged only) and
\* crud_image.delete_image, which returns silently when the row is gone
DeleteImageRow(s) ==
    /\ requests[s].op = "delete_image" /\ requests[s].pc = "row"
    /\ UNCHANGED otherVars
    /\ UNCHANGED outfit_files
    /\ UNCHANGED << searchVars, outfit_table, wardrobe_collection >>
    /\ \/ /\ image_table' =
               IF image_table[requests[s].target] = requests[s].user
               THEN [image_table EXCEPT ![requests[s].target] = "deleted"]
               ELSE image_table
          /\ End(s, 200)
       \/ \* the database raises
          /\ UNCHANGED image_table
          /\ End(s, 500)

\* the image requests, served one after the other
NextImages ==
    \/ \E user \in UserIds, is_image \in BOOLEAN : StartUpload(1, user, is_image)
    \/ SaveImage(1)
    \/ IndexImage(1)
    \/ \E user \in UserIds, image_id \in ImageIds : StartDeleteImage(1, user, image_id)
    \/ GetImage(1)
    \/ RemoveFromIndex(1)
    \/ DeleteImageRow(1)

SpecImages == InitStores /\ [][NextImages]_vars

\* ------------------------------------------------------- QdrantService
PointIds == {"p1", "p2"}

\* the points a caller upserts: two of them under the same id
PointPool ==
    { [id |-> "p1", vector |-> <<1, 0>>, payload |-> "a"],
      [id |-> "p1", vector |-> <<0, 1>>, payload |-> "b"],
      [id |-> "p2", vector |-> <<1, 0>>, payload |-> "c"] }

\* lists of points with pairwise different ids
PointLists ==
    { P \in SUBSET PointPool : P # {} /\ \A a, b \in P : a.id = b.id => a = b }

\* the collection_name argument: left out, empty, or the name of a collection
Selectors == {Null, ""} \cup CollectionNames

QueryVectors == { <<1, 0>>, <<0, 1>> }

\* a client that sends every call to the outfit collection
CollectionIgnoringSelector(selector) == "outfit"

\* collection = collection_name or self.outfit_collection_name
CollectionFor(selector) ==
    IF selector \in {Null, ""} THEN "outfit" ELSE selector

\* a retrieve that looks into every collection
RetrieveEverywhere(held, collection, point_id) ==
    { p \in UNION { held[c] : c \in CollectionNames } : p.id = point_id }

\* client.retrieve(collection_name=collection, ids=[point_id])
Retrieve(held, collection, point_id) ==
    { p \in held[collection] : p.id = point_id }

\* a retrieved record: with_payload=True, with_vectors=False
Record(p) == [ id |-> p.id, payload |-> p.payload ]

\* client.search: the points at or above score_threshold, the best `limit`
Hits(points, query_vector, limit, threshold) ==
    LET hits == { p \in points : ClearsThreshold(query_vector, p, threshold) }
    IN  IF Cardinality(hits) <= limit THEN hits
        ELSE CHOOSE S \in SUBSET hits :
               /\ Cardinality(S) = limit
               /\ \A a \in S, b \in hits \ S :
                    Dot(query_vector, a.vector) >= Dot(query_vector, b.vector)

InitClient ==
    /\ InitStores

\* the outcome of a call, with the collections as they were when it was made
Reply(op, selector, point_id, points, raised, value) ==
    reply' = [ op |-> op, selector |-> selector, point_id |-> point_id,
               points |-> points, raised |-> raised, value |-> value,
               before |-> index ]

\* QdrantService.upsert_vectors: an exception of the client is re-raised
UpsertVectors(points, selector) ==
    /\ UNCHANGED << searchVars, storeVars, other_call, detectorVars, endpointVars >>
    /\ \/ /\ index' = [index EXCEPT ![CollectionFor(selector)] =
                         { p \in @ : \A q \in points : q.id # p.id } \cup points]
          /\ Reply("upsert_vectors", selector, Null, points, Null, {})
       \/ /\ UNCHANGED index
          /\ Reply("upsert_vectors", selector, Null, points, "UnexpectedResponse", {})

\* QdrantService.search_vectors: an exception of the client is re-raised
SearchVectorsCall(query_vector, limit, threshold, selector) ==
    /\ UNCHANGED << searchVars, storeVars, other_call, detectorVars, endpointVars, index >>
    /\ \/ Reply("search_vectors", selector, Null, {}, Null,
                Hits(index[CollectionFor(selector)], query_vector, limit, threshold))
       \/ Reply("search_vectors", selector, Null, {}, "UnexpectedResponse", {})

\* what get_point does with the retrieved records
GetPointOutcome(results) ==
    IF results = {}
    THEN [ raised |-> "ValueError", value |-> {} ]
    ELSE [ raised |-> Null, value |-> Record(CHOOSE p \in results : TRUE) ]

\* QdrantService.get_point: no handler around the retrieve call
GetPoint(point_id, selector) ==
    /\ UNCHANGED << searchVars, storeVars, other_call, detectorVars, endpointVars, index >>
    /\ \/ LET outcome == GetPointOutcome(Retrieve(index, CollectionFor(selector), point_id))
          IN  Reply("get_point", selector, point_id, {}, outcome.raised, outcome.value)
       \/ Reply("get_point", selector, point_id, {}, "UnexpectedResponse", {})

\* QdrantService.point_exists: True if get_point returns, False on ValueError,
\* any other exception of get_point leaves the call
PointExists(point_id, selector) ==
    /\ UNCHANGED << searchVars, storeVars, other_call, detectorVars, endpointVars, index >>
    /\ \/ LET outcome == GetPointOutcome(Retrieve(index, CollectionFor(selector), point_id))
          IN  Reply("point_exists", selector, point_id, {}, Null,
                    outcome.raised # "ValueError")
       \/ Reply("point_exists", selector, point_id, {}, "UnexpectedResponse", {})

\* QdrantService.delete_point: True, or False when the client raises
DeletePoint(point_id, selector) ==
    /\ UNCHANGED << searchVars, storeVars, other_call, detectorVars, endpointVars >>
    /\ \/ /\ index' = [index EXCEPT ![CollectionFor(selector)] =
                         { p \in @ : p.id # point_id }]
          /\ Reply("delete_point", selector, point_id, {}, Null, TRUE)
       \/ /\ UNCHANGED index
          /\ Reply("delete_point", selector, point_id, {}, Null, FALSE)

NextClient ==
    \/ \E points \in PointLists, selector \in Selectors : UpsertVectors(points, selector)
    \/ \E query_vector \in QueryVectors, limit \in {1, SearchLimit},
          threshold \in Thresholds, selector \in Selectors :
          SearchVectorsCall(query_vector, limit, threshold, selector)
    \/ \E point_id \in PointIds, selector \in Selectors : GetPoint(point_id, selector)
    \/ \E point_id \in PointIds, selector \in Selectors : PointExists(point_id, selector)
    \/ \E point_id \in PointIds, selector \in Selectors : DeletePoint(point_id, selector)

SpecClient == InitClient /\ [][NextClient]_vars

\* ------------------------------------------------- get_clothes_from_img
\* strings are sequences of characters
DigitChars == <<"0", "1", "2", "3", "4", "5", "6", "7", "8", "9">>

\* str(n) of a natural number
RECURSIVE Str(_)
Str(n) ==
    IF n < 10 THEN << DigitChars[n + 1] >>
    ELSE Str(n \div 10) \o << DigitChars[(n % 10) + 1] >>

\* the class names of the detector, by class index
ClassNames ==
    [ c \in 0..9 |->
        CASE c = 0 -> <<"s", "u", "n", "g", "l", "a", "s", "s">>
          [] c = 1 -> <<"h", "a", "t">>
          [] c = 2 -> <<"j", "a", "c", "k", "e", "t">>
          [] c = 3 -> <<"s", "h", "i", "r", "t">>
          [] c = 4 -> <<"p", "a", "n", "t", "s">>
          [] c = 5 -> <<"s", "h", "o", "r", "t", "s">>
          [] c = 6 -> <<"s", "k", "i", "r", "t">>
          [] c = 7 -> <<"d", "r", "e", "s", "s">>
          [] c = 8 -> <<"b", "a", "g">>
          [] c = 9 -> <<"s", "h", "o", "e">> ]

\* the image of the detector: img.shape
ImgShape == [height |-> 100, width |-> 200]

\* detected boxes: centre, width and height in hundredths of the image
Boxes ==
    { [x |-> 50, y |-> 50, width |-> 20, height |-> 40],
      [x |-> 70, y |-> 70, width |-> 10, height |-> 20] }

\* the detections of one prediction: class index and box
Detections == { [cls |-> c, box |-> b] : c \in {3, 4, 9}, b \in Boxes }

\* img[y2_real:y1_real, x1_real:x2_real]
Crop(box) ==
    [ x1_real |-> (Abs(box.x - (box.width \div 2)) * ImgShape.width) \div 100,
      x2_real |-> (Abs(box.x + (box.width \div 2)) * ImgShape.width) \div 100,
      y1_real |-> (Abs(box.y + (box.height \div 2)) * ImgShape.height) \div 100,
      y2_real |-> (Abs(box.y - (box.height \div 2)) * ImgShape.height) \div 100 ]

\* a suffix that does not count
SuffixZero(count) == <<"_", "0">>

\* f'_{count_clothes[name] - 1}', count_clothes[name] already incremented
Suffix(count) == <<"_">> \o Str(count - 1)

\* the loop over the detections
RECURSIVE NameParts(_, _, _, _)
NameParts(detections, i, count_clothes, acc) ==
    IF i > Len(detections) THEN acc
    ELSE LET obj == detections[i]
             seen == obj.cls \in DOMAIN count_clothes
             count == IF seen THEN count_clothes[obj.cls] + 1 ELSE 1
             name == IF seen THEN ClassNames[obj.cls] \o Suffix(count)
                     ELSE ClassNames[obj.cls] \o <<"_", "0">>
         IN  NameParts(detections, i + 1,
                 [ c \in DOMAIN count_clothes \cup {obj.cls} |->
                     IF c = obj.cls THEN count ELSE count_clothes[c] ],
                 Append(acc, << name, Crop(obj.box) >>))

GetClothesFromImg(detections) == NameParts(detections, 1, << >>, << >>)

\* name.split("_")[0] if "_" in name else name
RECURSIVE UpToUnderscore(_)
UpToUnderscore(name) ==
    IF name = << >> \/ Head(name) = "_" THEN << >>
    ELSE << Head(name) >> \o UpToUnderscore(Tail(name))

InitDetector ==
    /\ outfit_collection = [o \in OutfitIds |-> << >>]
    /\ pc = "idle"
    /\ mode = Null
    /\ images = << >>
    /\ wardrobe_object_names = << >>
    /\ candidates = << >>
    /\ limit_outfits = 0
    /\ score_threshold = 0
    /\ wardrobe_embeddings = << >>
    /\ k = 0
    /\ ranked_outfits = << >>
    /\ result = Null
    /\ error = Null
    /\ calls = NoCalls
    /\ outfit_table = [o \in OutfitIds |-> Null]
    /\ image_table = [i \in ImageIds |-> Null]
    /\ wardrobe_collection = {}
    /\ requests = [s \in Slots |-> NoRequest]
    /\ outfit_files = {}
    /\ index = [c \in CollectionNames |-> {}]
    /\ reply = NoReply
    /\ other_call = NoCall
    /\ label \in SeqsUpTo(Detections, MaxBoxes)
    /\ IdleEndpoints
    /\ parts = << >>
    /\ detected = FALSE

\* get_clothes_from_img(img_path) on the detections of the image
Detect ==
    /\ ~detected
    /\ parts' = GetClothesFromImg(label)
    /\ detected' = TRUE
    /\ UNCHANGED << searchVars, storeVars, clientVars, other_call, label, endpointVars >>

NextDetector == Detect

SpecDetector == InitDetector /\ [][NextDetector]_vars

\* ------------------------------------------------ two searches at once
\* the arguments of the calls made side by side
PairCalls ==
    { [ mode |-> "v2",
        images |-> << [ctype |-> "shirt", vec |-> <<1, 0>>],
                      [ctype |-> "shirt", vec |-> <<0, -2>>] >>,
        sampled |-> <<"o1", "o2">>, threshold |-> 0, limit |-> 2 ],
      [ mode |-> "v2",
        images |-> << [ctype |-> "unknown", vec |-> <<2, 0>>] >>,
        sampled |-> <<"o2", "o1">>, threshold |-> 0, limit |-> 1 ],
      [ mode |-> "v1",
        images |-> << [ctype |-> "shirt", vec |-> <<1, 0>>] >>,
        sampled |-> << >>, threshold |-> 35, limit |-> 2 ] }

NamesFor(imgs) == [ j \in 1..Len(imgs) |-> ObjectName(j) ]

InitPair == Init

\* the first call: one of the two searches on the engine
StartFirst ==
    /\ pc = "idle"
    /\ \E call \in PairCalls :
         \/ /\ call.mode = "v2"
            /\ CallV2(call.images, NamesFor(call.images), call.sampled, call.limit)
         \/ /\ call.mode = "v1"
            /\ CallV1(call.images, NamesFor(call.images), call.threshold, call.limit)

\* a list of results kept on the engine and shared by its calls
EngineRanked(call_list, engine_list) == engine_list

\* ranked_outfits = []: the list a call appends to is a local of that call
OwnRanked(call_list, engine_list) == call_list

\* what one iteration of either loop appends for a candidate outfit
Entries(search, collection, imgs, names, outfit_id) ==
    LET outfit_item_records == GetOutfitVectors(collection, outfit_id)
        v2 == ScoreOutfitV2(outfit_item_records, WardrobeTypes(imgs),
                            GetImageEmbeddings(imgs), names)
        v1 == ScoreOutfitV1(outfit_item_records, GetImageEmbeddings(imgs), names)
    IN  IF NoRecords(outfit_item_records) THEN << >>
        ELSE IF search = "v2"
             THEN IF v2.matched_items # << >>
                  THEN << RecommendedOutfit(outfit_id, CompletenessV2(v2.outfit_scores),
                                            v2.matched_items) >>
                  ELSE << >>
             ELSE << RecommendedOutfit(outfit_id, Mean(v1.outfit_scores),
                                       v1.matched_items) >>

\* the second call, up to its loop
StartSecond ==
    /\ other_call.pc = "idle"
    /\ UNCHANGED << searchVars, storeVars, clientVars, detectorVars, endpointVars >>
    /\ \E call \in PairCalls :
         \E order \in IF call.mode = "v2" THEN { call.sampled }
                      ELSE Perms(CandidateOutfitIds(outfit_collection,
                                     GetImageEmbeddings(call.images), call.threshold)) :
            other_call' =
                [ pc |-> IF (call.mode = "v2" /\ InvalidInputV2(call.images,
                                                    NamesFor(call.images)))
                            \/ (call.mode = "v1" /\ InvalidInputV1(call.images,
                                                       NamesFor(call.images)))
                         THEN "raised"
                         ELSE IF call.mode = "v1" /\ order = << >> THEN "done"
                         ELSE "rank",
                  mode |-> call.mode,
                  images |-> call.images,
                  wardrobe_object_names |-> NamesFor(call.images),
                  candidates |-> order,
                  limit_outfits |-> call.limit,
                  k |-> 1,
                  ranked_outfits |-> << >>,
                  result |-> << >> ]

\* one iteration of the loop of the second call
ScoreNextSecond ==
    /\ other_call.pc = "rank"
    /\ other_call.k <= Len(other_call.candidates)
    /\ UNCHANGED << searchVars, storeVars, clientVars, detectorVars, endpointVars >>
    /\ other_call' =
         [ other_call EXCEPT
             !.ranked_outfits =
                 OwnRanked(other_call.ranked_outfits, ranked_outfits)
                     \o Entries(other_call.mode, outfit_collection, other_call.images,
                                other_call.wardrobe_object_names,
                                other_call.candidates[other_call.k]),
             !.k = @ + 1 ]

\* the sort, the truncation and the return of the second call
FinishSecond ==
    /\ other_call.pc = "rank"
    /\ other_call.k > Len(other_call.candidates)
    /\ UNCHANGED << searchVars, storeVars, clientVars, detectorVars, endpointVars >>
    /\ other_call' =
         [ other_call EXCEPT
             !.pc = "done",
             !.result = RankAndTruncate(other_call.ranked_outfits,
                                        other_call.limit_outfits) ]

NextPair ==
    \/ StartFirst
    \/ ScoreNextV2
    \/ FinishV2
    \/ ScoreNextV1
    \/ FinishV1
    \/ StartSecond
    \/ ScoreNextSecond
    \/ FinishSecond

SpecPair == InitPair /\ [][NextPair]_vars

\* ------------------------------------------------ the saved-outfit endpoint
InitSaved ==
    /\ outfit_collection = [o \in OutfitIds |-> << >>]
    /\ pc = "idle"
    /\ mode = Null
    /\ images = << >>
    /\ wardrobe_object_names = << >>
    /\ candidates = << >>
    /\ limit_outfits = 0
    /\ score_threshold = 0
    /\ wardrobe_embeddings = << >>
    /\ k = 0
    /\ ranked_outfits = << >>
    /\ result = Null
    /\ error = Null
    /\ calls = NoCalls
    /\ outfit_table = [o \in OutfitIds |-> IF o = "o1" THEN "u1" ELSE Null]
    /\ image_table = [i \in ImageIds |-> Null]
    /\ wardrobe_collection = {}
    /\ requests = [s \in Slots |-> NoRequest]
    /\ outfit_files = {"o1"}
    /\ IdleRest

\* the rows select(SavedOutfit).where(user_id == ..., outfit_id == ...) finds
SavedRows(user_id, outfit_id) ==
    { row \in saved_table : row.user_id = user_id /\ row.outfit_id = outfit_id }

\* the handlers of the save_outfit endpoint: `except ValueError` answers 409,
\* `except Exception` answers 500 for everything else, an HTTPException raised
\* in the body included
StatusFor(exception) ==
    IF exception = "ValueError" THEN 409 ELSE 500

\* an exception leaves the body of the endpoint
Caught(s, exception) ==
    /\ caught' = [caught EXCEPT ![s] = exception]
    /\ End(s, StatusFor(exception))

\* POST /saved-outfits/ is called
StartSaveOutfit(s, user, outfit_id) ==
    /\ Free(s)
    /\ requests' = [requests EXCEPT ![s] =
         [ op |-> "save_outfit", pc |-> "get", user |-> user, target |-> outfit_id,
           crops |-> 0, status |-> 0 ]]
    /\ caught' = [caught EXCEPT ![s] = Null]
    /\ UNCHANGED << searchVars, outfit_table, image_table, wardrobe_collection,
                    outfit_files, clientVars, other_call, detectorVars, saved_table, split,
                    subsetVars, clothingVars >>

\* outfit_crud.get_outfit_by_id_any and the raise of HTTPException(404)
GetOutfitByIdAny(s) ==
    /\ requests[s].op = "save_outfit" /\ requests[s].pc = "get"
    /\ UNCHANGED << searchVars, outfit_table, image_table, wardrobe_collection,
                    outfit_files, clientVars, other_call, detectorVars, saved_table, split,
                    subsetVars, clothingVars >>
    /\ \/ IF outfit_table[requests[s].target] \in UserIds
          THEN /\ Goto(s, "select")
               /\ UNCHANGED caught
          ELSE Caught(s, "HTTPException 404")
       \/ \* the database raises
          Caught(s, "SQLAlchemyError")

\* saved_outfit_crud.save_outfit up to the test of existing.scalar_one_or_none()
SelectExisting(s) ==
    /\ requests[s].op = "save_outfit" /\ requests[s].pc = "select"
    /\ UNCHANGED << searchVars, outfit_table, image_table, wardrobe_collection,
                    outfit_files, clientVars, other_call, detectorVars, saved_table, split,
                    subsetVars, clothingVars >>
    /\ \/ LET existing == SavedRows(requests[s].user, requests[s].target)
          IN  CASE Cardinality(existing) = 0 ->
                     /\ Goto(s, "commit")
                     /\ UNCHANGED caught
                [] Cardinality(existing) = 1 -> Caught(s, "ValueError")
                [] OTHER -> Caught(s, "MultipleResultsFound")
       \/ \* the database raises
          Caught(s, "SQLAlchemyError")

\* db.add(saved_outfit), db.commit(), db.refresh and the return of the row
CommitSaved(s) ==
    /\ requests[s].op = "save_outfit" /\ requests[s].pc = "commit"
    /\ UNCHANGED << searchVars, outfit_table, image_table, wardrobe_collection,
                    outfit_files, clientVars, other_call, detectorVars, split,
                    subsetVars, clothingVars >>
    /\ \/ /\ saved_table' = saved_table \cup
                 { [ id |-> Cardinality(saved_table) + 1,
                     user_id |-> requests[s].user,
                     outfit_id |-> requests[s].target ] }
          /\ End(s, 200)
          /\ UNCHANGED caught
       \/ \* the database raises
          /\ Caught(s, "SQLAlchemyError")
          /\ UNCHANGED saved_table

NextSaved ==
    \/ \E s \in Slots, user \in UserIds, outfit_id \in OutfitIds :
          StartSaveOutfit(s, user, outfit_id)
    \/ \E s \in Slots : GetOutfitByIdAny(s)
    \/ \E s \in Slots : SelectExisting(s)
    \/ \E s \in Slots : CommitSaved(s)

SpecSaved == InitSaved /\ [][NextSaved]_vars

\* ------------------------------------- FashionSegmentationModel and its caller
\* what the segmentation model can give for one detected item: a polygon that
\* rasterizes, an empty array, NaN or infinite coordinates, fewer than 3 points,
\* a polygon cv2.fillPoly rejects
SegmentKinds == {"polygon", "empty", "non-finite", "short", "fillPoly error"}

\* the classes _detect_clothes reports, at most once each
SegmentedClasses == {2, 3, 4, 9}

\* segment_clothes: the detected items in detection order, each with its
\* class name and its segment
SegmentInputs ==
    { d \in SeqsUpTo([cls : SegmentedClasses, kind : SegmentKinds], MaxSegments) :
        \A a, b \in 1..Len(d) : a # b => d[a].cls # d[b].cls }

\* the tests of the loop body that end in `continue`
Skipped(segment) == segment.kind # "polygon"

\* the loop over the segments: segment_images.append(segment_img) for the
\* segments not skipped; a crop is named by the class of the item it shows
RECURSIVE SegmentImagesFrom(_, _)
SegmentImagesFrom(segments, i) ==
    IF i > Len(segments) THEN << >>
    ELSE (IF Skipped(segments[i]) THEN << >> ELSE << [crop_of |-> segments[i].cls] >>)
         \o SegmentImagesFrom(segments, i + 1)

\* get_segment_images: (segment_images, cloth_names)
GetSegmentImages(segments) ==
    IF Len(segments) = 0
    THEN [ segment_images |-> << >>, cloth_names |-> << >> ]
    ELSE [ segment_images |-> SegmentImagesFrom(segments, 1),
           cloth_names |-> [ i \in 1..Len(segments) |-> ClassNames[segments[i].cls] ] ]

InitSegments ==
    /\ outfit_collection = [o \in OutfitIds |-> << >>]
    /\ pc = "idle"
    /\ mode = Null
    /\ images = << >>
    /\ wardrobe_object_names = << >>
    /\ candidates = << >>
    /\ limit_outfits = 0
    /\ score_threshold = 0
    /\ wardrobe_embeddings = << >>
    /\ k = 0
    /\ ranked_outfits = << >>
    /\ result = Null
    /\ error = Null
    /\ calls = NoCalls
    /\ outfit_table = [o \in OutfitIds |-> Null]
    /\ image_table = [i \in ImageIds |-> Null]
    /\ wardrobe_collection = {}
    /\ requests = [s \in Slots |-> NoRequest]
    /\ outfit_files = {}
    /\ index = [c \in CollectionNames |-> {}]
    /\ reply = NoReply
    /\ other_call = NoCall
    /\ label = << >>
    /\ parts = << >>
    /\ detected = FALSE
    /\ saved_table = {}
    /\ caught = [s \in Slots |-> Null]
    /\ split \in { [NoSplit EXCEPT !.segments = d] : d \in SegmentInputs }
    /\ subset = NoSubset
    /\ detect = [s \in Slots |-> NoDetect]
    /\ temp_files = {}
    /\ now = 0

\* segmentation_model.get_segment_images(tmp_path) in split_outfit_to_clothes
\* and the test for no segmented clothes
SegmentOutfit ==
    /\ split.pc = "idle"
    /\ LET got == GetSegmentImages(split.segments)
       IN  split' = [split EXCEPT
                       !.segment_images = got.segment_images,
                       !.cloth_names = got.cloth_names,
                       !.pc = IF Len(got.segment_images) = 0 THEN "422" ELSE "index"]
    /\ UNCHANGED << searchVars, storeVars, clientVars, other_call, detectorVars,
                    savedVars, subsetVars, clothingVars >>

\* one iteration of `for name, cropped_img in zip(cloth_names, segmented_clothes)`
\* (a 640x640 crop is never of size 0), and the end of the loop
IndexSegment ==
    /\ split.pc = "index"
    /\ LET n == Len(split.clothing_info) + 1
       IN  IF n > Len(split.cloth_names) \/ n > Len(split.segment_images)
           THEN split' = [split EXCEPT !.pc = "done"]
           ELSE split' = [split EXCEPT !.clothing_info =
                    Append(@, [ name |-> split.cloth_names[n],
                                clothing_type |-> UpToUnderscore(split.cloth_names[n]),
                                image |-> split.segment_images[n] ])]
    /\ UNCHANGED << searchVars, storeVars, clientVars, other_call, detectorVars,
                    savedVars, subsetVars, clothingVars >>

NextSegments ==
    \/ SegmentOutfit
    \/ IndexSegment

SpecSegments == InitSegments /\ [][NextSegments]_vars

\* --------------------------------------------- search_similar_outfits_subset
\* Image.object_name of the rows of the Image table
ImageObjectName == [ i \in ImageIds |-> IF i = "i1" THEN "i1.png" ELSE "i2.png" ]

\* the strings a caller sends as identifiers: ids of rows, an id without a
\* row, object names of rows, an object name without a row
Identifiers == {"i1", "i2", "i3", "i1.png", "i2.png", "i3.png"}

IdentifierLists == SeqsUpTo(Identifiers, MaxIdentifiers)

\* UUID(identifier) does not raise ValueError
IsUuid(identifier) == identifier \in {"i1", "i2", "i3"}

\* a lookup that does not filter on the owner of the row
LookupImageAnyOwner(table, user, id_type, identifier) ==
    IF id_type = "object_name"
    THEN IF \E i \in ImageIds : ImageObjectName[i] = identifier /\ table[i] \in UserIds
         THEN identifier ELSE Null
    ELSE IF IsUuid(identifier) /\ identifier \in ImageIds /\ table[identifier] \in UserIds
         THEN ImageObjectName[identifier] ELSE Null

\* the body of the loop over the identifiers: the object_name of the Image row
\* found for the identifier and current_user.id, Null when nothing is appended
LookupImage(table, user, id_type, identifier) ==
    IF id_type = "object_name"
    THEN IF \E i \in ImageIds : ImageObjectName[i] = identifier /\ table[i] = user
         THEN identifier ELSE Null
    ELSE IF ~IsUuid(identifier) THEN Null
         ELSE IF identifier \in ImageIds /\ table[identifier] = user
              THEN ImageObjectName[identifier] ELSE Null

InitSubset ==
    /\ outfit_collection = [o \in OutfitIds |-> << >>]
    /\ pc = "idle"
    /\ mode = Null
    /\ images = << >>
    /\ wardrobe_object_names = << >>
    /\ candidates = << >>
    /\ limit_outfits = 0
    /\ score_threshold = 0
    /\ wardrobe_embeddings = << >>
    /\ k = 0
    /\ ranked_outfits = << >>
    /\ result = Null
    /\ error = Null
    /\ calls = NoCalls
    /\ outfit_table \in { [o \in OutfitIds |-> Null],
                          [o \in OutfitIds |-> IF o = "o1" THEN "u2" ELSE Null] }
    /\ image_table \in [ImageIds -> UserIds \cup {Null}]
    /\ wardrobe_collection = {}
    /\ requests = [s \in Slots |-> NoRequest]
    /\ outfit_files = { o \in OutfitIds : outfit_table[o] # Null }
    /\ IdleRest

\* the validation of the body and the choice of the identifier list
StartSubset(user, object_names, image_ids) ==
    /\ subset.pc = "idle"
    /\ subset' =
         IF object_names = << >> /\ image_ids = << >>
         THEN [subset EXCEPT !.pc = "done", !.user = user, !.status = 400]
         ELSE [subset EXCEPT
                 !.pc = "lookup", !.user = user, !.n = 1,
                 !.id_type = IF object_names # << >> THEN "object_name" ELSE "image_id",
                 !.identifiers = IF object_names # << >> THEN object_names ELSE image_ids]
    /\ UNCHANGED << searchVars, storeVars, clientVars, other_call, detectorVars,
                    savedVars, split, clothingVars >>

\* one iteration of the loop over the identifiers, and the test after the loop
LookupNext ==
    /\ subset.pc = "lookup"
    /\ IF subset.n <= Len(subset.identifiers)
       THEN LET object_name == LookupImage(image_table, subset.user, subset.id_type,
                                           subset.identifiers[subset.n])
            IN  subset' = [subset EXCEPT
                             !.n = @ + 1,
                             !.wardrobe_object_names =
                                 IF object_name # Null THEN Append(@, object_name) ELSE @]
       ELSE IF subset.wardrobe_object_names = << >>
            THEN subset' = [subset EXCEPT !.pc = "done", !.status = 404]
            ELSE subset' = [subset EXCEPT !.pc = "sample"]
    /\ UNCHANGED << searchVars, storeVars, clientVars, other_call, detectorVars,
                    savedVars, split, clothingVars >>

\* get_random_outfit_ids and the call of the engine: find_similar_outfit_v2
\* takes no user_id parameter, so the call raises TypeError, which this
\* endpoint does not handle
SampleAndSearch ==
    /\ subset.pc = "sample"
    /\ IF \A o \in OutfitIds : outfit_table[o] \notin UserIds
       THEN subset' = [subset EXCEPT !.pc = "done", !.status = 200]
       ELSE subset' = [subset EXCEPT
                         !.pc = "done", !.status = 500, !.engine_called = TRUE,
                         !.engine_names = subset.wardrobe_object_names]
    /\ UNCHANGED << searchVars, storeVars, clientVars, other_call, detectorVars,
                    savedVars, split, clothingVars >>

NextSubset ==
    \/ /\ subset.pc = "idle"
       /\ \E user \in UserIds, object_names \in IdentifierLists :
            \E image_ids \in SeqsUpTo(Identifiers, MaxIdentifiers - Len(object_names)) :
                StartSubset(user, object_names, image_ids)
    \/ LookupNext
    \/ SampleAndSearch

SpecSubset == InitSubset /\ [][NextSubset]_vars

\* ------------------------------------------------ the detect-clothes endpoint
\* file.filename of the uploads
Filenames == {"a.jpg", "b.jpg"}

\* datetime.now().strftime("%Y%m%d_%H%M%S"): the clock to the second
Timestamp(seconds) == seconds

\* os.path.join("app/storage/clothing_detection", f"temp_{timestamp}")
TempDir(seconds) == <<"temp", Timestamp(seconds)>>

\* os.path.join(temp_dir, file.filename) of the request of slot s
TempPath(s) == <<detect[s].temp_dir, detect[s].filename>>

\* shutil.rmtree(temp_dir): what is left of the files
Rmtree(files, temp_dir) == { f \in files : f[1] # temp_dir }

InitClothing ==
    /\ outfit_collection = [o \in OutfitIds |-> << >>]
    /\ pc = "idle"
    /\ mode = Null
    /\ images = << >>
    /\ wardrobe_object_names = << >>
    /\ candidates = << >>
    /\ limit_outfits = 0
    /\ score_threshold = 0
    /\ wardrobe_embeddings = << >>
    /\ k = 0
    /\ ranked_outfits = << >>
    /\ result = Null
    /\ error = Null
    /\ calls = NoCalls
    /\ outfit_table = [o \in OutfitIds |-> Null]
    /\ image_table = [i \in ImageIds |-> Null]
    /\ wardrobe_collection = {}
    /\ requests = [s \in Slots |-> NoRequest]
    /\ outfit_files = {}
    /\ IdleRest

\* a second passes
Tick ==
    /\ now < MaxSeconds
    /\ now' = now + 1
    /\ UNCHANGED << searchVars, storeVars, clientVars, other_call, detectorVars,
                    savedVars, split, subsetVars, detect, temp_files >>

\* detect_clothes up to `content = await file.read()`: the content type test,
\* os.makedirs(temp_dir, exist_ok=True) and open(temp_path, "wb")
StartDetect(s, filename, is_image) ==
    /\ detect[s].pc \in {"idle", "done"}
    /\ IF is_image
       THEN /\ detect' = [detect EXCEPT ![s] =
                 [ pc |-> "read", temp_dir |-> TempDir(now), filename |-> filename,
                   status |-> 0 ]]
            /\ temp_files' = temp_files \cup { <<TempDir(now), filename>> }
       ELSE /\ detect' = [detect EXCEPT ![s] =
                 [ pc |-> "done", temp_dir |-> << >>, filename |-> filename,
                   status |-> 400 ]]
            /\ UNCHANGED temp_files
    /\ UNCHANGED << searchVars, storeVars, clientVars, other_call, detectorVars,
                    savedVars, split, subsetVars, now >>

\* detect_clothes after the read: buffer.write, get_clothes_from_img(temp_path),
\* the zip of the detected items, the response, and the finally block with
\* shutil.rmtree(temp_dir); nothing in it awaits
FinishDetect(s) ==
    /\ detect[s].pc = "read"
    /\ \/ \* the file is not at temp_path: get_clothes_from_img raises
          /\ TempPath(s) \notin temp_files
          /\ detect' = [detect EXCEPT ![s].pc = "done", ![s].status = 500]
       \/ \* clothes are detected and zipped
          /\ TempPath(s) \in temp_files
          /\ detect' = [detect EXCEPT ![s].pc = "done", ![s].status = 200]
       \/ \* nothing is detected
          /\ TempPath(s) \in temp_files
          /\ detect' = [detect EXCEPT ![s].pc = "done", ![s].status = 404]
    /\ temp_files' = Rmtree(temp_files, detect[s].temp_dir)
    /\ UNCHANGED << searchVars, storeVars, clientVars, other_call, detectorVars,
                    savedVars, split, subsetVars, now >>

NextClothing ==
    \/ Tick
    \/ \E s \in Slots, filename \in Filenames, is_image \in BOOLEAN :
          StartDetect(s, filename, is_image)
    \/ \E s \in Slots : FinishDetect(s)

SpecClothing == InitClothing /\ [][NextClothing]_vars

\* ================================================================ claims
\* the point of the outfit collection a MatchedItem names
ItemOf(m) == outfit_collection[m.outfit_item_id[1]][m.outfit_item_id[2]]

\* the wardrobe image a MatchedItem names
WardrobeOf(m) == images[m.wardrobe_image_index + 1]

Matches(r) == { r.matches[i] : i \in 1..Len(r.matches) }

Ranked == { ranked_outfits[i] : i \in 1..Len(ranked_outfits) }

Returned == IF result = Null THEN {} ELSE { result[i] : i \in 1..Len(result) }

\* C1: every MatchedItem built by find_similar_outfit_v2, in the list being
\* built and in the returned list, pairs an outfit item with a wardrobe item
\* of the same clothing_type, an outfit item without clothing_type counting
\* as "unknown".
C1_TypeGating ==
    mode = "v2" =>
        \A r \in Ranked \cup Returned : \A m \in Matches(r) :
            /\ m.wardrobe_image_index \in 0..(Len(images) - 1)
            /\ WardrobeOf(m).ctype =
                 (IF ItemOf(m).ctype = NoType THEN "unknown" ELSE ItemOf(m).ctype)

\* C1 witness: a returned match although a wardrobe item of another type is
\* strictly more similar to the outfit item, and a returned match of an
\* outfit item without clothing_type with a wardrobe item of type "unknown".
C1_Witness ==
    /\ pc = "done" /\ mode = "v2"
    /\ \E r \in Returned : \E m \in Matches(r) : \E j \in 1..Len(images) :
         /\ images[j].ctype # WardrobeOf(m).ctype
         /\ Dot(images[j].vec, ItemOf(m).vec) > m.score
    /\ \E r \in Returned : \E m \in Matches(r) :
         ItemOf(m).ctype = NoType /\ WardrobeOf(m).ctype = "unknown"

\* C2: within one RecommendedOutfit of find_similar_outfit_v2 no two
\* MatchedItems have the same wardrobe_image_index.
C2_OneToOne ==
    mode = "v2" =>
        \A r \in Ranked \cup Returned : \A a, b \in 1..Len(r.matches) :
            a # b => r.matches[a].wardrobe_image_index # r.matches[b].wardrobe_image_index

\* C2 witness: two "shirt" wardrobe items, an outfit with two "shirt" items,
\* and both outfit items matched in the returned list.
C2_Witness ==
    /\ pc = "done" /\ mode = "v2"
    /\ Len(images) = 2 /\ \A j \in 1..2 : images[j].ctype = "shirt"
    /\ \E r \in Returned :
         /\ Len(r.matches) = 2
         /\ \A m \in Matches(r) : ItemOf(m).ctype = "shirt"
         /\ ItemOf(r.matches[1]).vec # ItemOf(r.matches[2]).vec

\* C3: every RecommendedOutfit of find_similar_outfit_v2 has one matches
\* entry per point the index holds for its outfit_id, the items without a
\* same-type unused wardrobe item included.
C3_OneMatchPerItem ==
    mode = "v2" =>
        \A r \in Ranked \cup Returned :
            Len(r.matches) = Len(outfit_collection[r.outfit_id])

\* the scores of the matches entries of a RecommendedOutfit
MatchScores(r) == [ i \in 1..Len(r.matches) |-> r.matches[i].score ]

\* C4: completeness_score of every RecommendedOutfit of
\* find_similar_outfit_v2 is the sum of matches[i].score divided by
\* len(matches).
C4_MeanOfMatchScores ==
    mode = "v2" =>
        \A r \in Ranked \cup Returned :
            /\ r.matches # << >>
            /\ SameValue(r.completeness_score, Mean(MatchScores(r)))

\* the per-item scores the 0.5 rule gives, summed and scaled by 24: a matched
\* item counts its similarity, a gap half the mean of the similarities matched
\* before it (0 when nothing was matched before it)
RECURSIVE HalfMeanRuleSum(_, _, _, _, _)
HalfMeanRuleSum(r, n, i, matched_sum, matched_count) ==
    IF i > n THEN 0
    ELSE LET hit == { m \in Matches(r) : m.outfit_item_id = <<r.outfit_id, i>> }
         IN  IF hit # {}
             THEN LET m == CHOOSE x \in hit : TRUE
                  IN  24 * m.score
                      + HalfMeanRuleSum(r, n, i + 1, matched_sum + m.score,
                                        matched_count + 1)
             ELSE (IF matched_count = 0 THEN 0
                   ELSE (12 * matched_sum) \div matched_count)
                  + HalfMeanRuleSum(r, n, i + 1, matched_sum, matched_count)

\* C5: a gap scores 0.5 times the mean of the scores matched before it in the
\* outfit; with the wardrobe [shirt] and the outfit [shirt identical to it,
\* pants] the completeness_score is 0.75.
C5_GapScoresHalfMean ==
    mode = "v2" =>
        \A r \in Ranked \cup Returned :
            LET n == Len(outfit_collection[r.outfit_id])
            IN  SameValue(r.completeness_score,
                          [num |-> HalfMeanRuleSum(r, n, 1, 0, 0), den |-> 24 * n])

Score(r) == r.completeness_score

Min(a, b) == IF a < b THEN a ELSE b

\* C6: the returned list of both searches is in non-increasing order of
\* completeness_score, has min(limit_outfits, number of scored candidates)
\* entries, all of them scored candidates, and no scored candidate left out
\* has a strictly higher completeness_score than a returned one.
C6_RankedPrefix ==
    (pc = "done" /\ error = Null) =>
        /\ Len(result) = Min(limit_outfits, Len(ranked_outfits))
        /\ \A i, j \in 1..Len(result) :
             i < j => ~Greater(Score(result[j]), Score(result[i]))
        /\ \E f \in [1..Len(result) -> 1..Len(ranked_outfits)] :
             /\ \A i, j \in 1..Len(result) : i # j => f[i] # f[j]
             /\ \A i \in 1..Len(result) : result[i] = ranked_outfits[f[i]]
             /\ \A p \in 1..Len(ranked_outfits) :
                  (\A i \in 1..Len(result) : f[i] # p) =>
                      \A i \in 1..Len(result) :
                          ~Greater(Score(ranked_outfits[p]), Score(result[i]))

\* C6 witness: two scored candidates, the later one with the strictly higher
\* score, limit_outfits = 1, and the later one alone returned.
C6_Witness ==
    /\ pc = "done" /\ mode = "v2"
    /\ Len(ranked_outfits) = 2 /\ limit_outfits = 1
    /\ Greater(Score(ranked_outfits[2]), Score(ranked_outfits[1]))
    /\ result = << ranked_outfits[2] >>

\* what find_similar_outfit_v2 computes for the wardrobe and the outfit of r
V2Entry(outfit_id) ==
    LET scored == ScoreOutfitV2(GetOutfitVectors(outfit_collection, outfit_id),
                                WardrobeTypes(images), wardrobe_embeddings,
                                wardrobe_object_names)
    IN  RecommendedOutfit(outfit_id, CompletenessV2(scored.outfit_scores),
                          scored.matched_items)

SameStage2(r) ==
    /\ r.matches = V2Entry(r.outfit_id).matches
    /\ SameValue(Score(r), Score(V2Entry(r.outfit_id)))

FirstBest(vec) ==
    CHOOSE j \in 1..Len(images) :
        /\ \A i \in 1..Len(images) : Dot(images[i].vec, vec) <= Dot(images[j].vec, vec)
        /\ \A i \in 1..(j - 1) : Dot(images[i].vec, vec) < Dot(images[j].vec, vec)

\* every item of the outfit has its most similar wardrobe item (the lowest
\* index among equals) in a wardrobe item of its own clothing type, with a
\* similarity above -1.0, and no two items of the outfit share that item
BestIsTypedAndFree(outfit_id) ==
    LET items == outfit_collection[outfit_id]
    IN  \A a \in 1..Len(items) :
            /\ images[FirstBest(items[a].vec)].ctype =
                 (IF items[a].ctype = NoType THEN "unknown" ELSE items[a].ctype)
            /\ Dot(images[FirstBest(items[a].vec)].vec, items[a].vec) > -1
            /\ \A b \in 1..Len(items) :
                 a # b => FirstBest(items[a].vec) # FirstBest(items[b].vec)

NoNeighbours ==
    \A j \in 1..Len(images) :
        SearchVectors(outfit_collection, images[j].vec, SearchLimit, score_threshold) = {}

ValidWardrobe == images # << >> /\ Len(images) = Len(wardrobe_object_names)

\* C8: find_similar_outfit called with a valid wardrobe for which no
\* search_vectors call returns a point returns [] at once, without a
\* get_outfit_vectors call and without an exception; find_similar_outfit_v2
\* called with a valid wardrobe and no sampled outfit id returns [] likewise.
C8_EmptyCandidatesGiveEmptyList ==
    /\ [][ (pc = "idle" /\ mode' = "v1" /\ ValidWardrobe' /\ NoNeighbours')
             => (pc' = "done" /\ result' = << >> /\ error' = Null /\ calls'.scroll = 0)
         ]_vars
    /\ [] ( (mode = "v2" /\ ValidWardrobe /\ candidates = << >>)
              => /\ pc \in {"rank", "done"}
                 /\ error = Null
                 /\ calls.scroll = 0
                 /\ pc = "done" => result = << >> )

\* C8 witness: a wardrobe of two items, a threshold no point clears, a non-empty
\* outfit collection, one search per wardrobe item and the empty list returned.
C8_Witness ==
    /\ pc = "done" /\ mode = "v1"
    /\ Len(images) >= 2 /\ score_threshold = 101
    /\ \E o \in OutfitIds : outfit_collection[o] # << >>
    /\ calls.search = Len(images) /\ calls.scroll = 0
    /\ result = << >>

\* C9: the loop step of either search that meets a candidate without records
\* appends nothing, raises nothing and goes on to the next candidate, so no
\* listed outfit is one without records.
C9_CandidateWithoutRecordsIsSkipped ==
    /\ [][ ( /\ pc = "rank" /\ k <= Len(candidates) /\ k' = k + 1
             /\ outfit_collection[candidates[k]] = << >> )
           => (ranked_outfits' = ranked_outfits /\ pc' = "rank" /\ error' = Null) ]_vars
    /\ [] (\A r \in Ranked \cup Returned : outfit_collection[r.outfit_id] # << >>)

\* C9 witness: find_similar_outfit had two candidates, one of them without
\* records when its turn came, and returned the other one.
C9_Witness ==
    /\ pc = "done" /\ mode = "v1"
    /\ Len(candidates) = 2 /\ limit_outfits = 2
    /\ \E i \in 1..2 : outfit_collection[candidates[i]] = << >>
    /\ Len(result) = 1

\* C10: a call of either search with an empty wardrobe, or with a number of
\* object names other than the number of images, ends in ValueError with no
\* encoder call and no vector-index call made.
C10_InvalidWardrobeRaises ==
    (pc # "idle" /\ (images = << >> \/ Len(images) # Len(wardrobe_object_names)))
        => /\ pc = "raised"
           /\ error = "ValueError"
           /\ result = Null
           /\ calls = NoCalls

\* C10 witness: find_similar_outfit raised for a non-empty wardrobe with more
\* object names than images.
C10_Witness ==
    /\ pc = "raised" /\ mode = "v1"
    /\ images # << >>
    /\ Len(wardrobe_object_names) > Len(images)

\* C11: a get_outfit_vectors call that fails for one candidate never ends the
\* search: no step taken inside the loop over the candidates leaves the call
\* in an exception, the candidate is passed over and the loop goes on.
C11_FetchFailureIsSkipped ==
    [][ (pc = "rank" /\ k <= Len(candidates)) => pc' # "raised" ]_vars

\* the wardrobe shape of a MatchedItem: the index of a wardrobe item and the
\* object name passed for it, and no suggestion link
WardrobeShape(m) ==
    /\ m.wardrobe_image_index \in 0..(Len(images) - 1)
    /\ m.wardrobe_image_object_name = wardrobe_object_names[m.wardrobe_image_index + 1]
    /\ m.suggested_item_product_link = Null
    /\ m.suggested_item_image_link = Null

\* C16: every MatchedItem of find_similar_outfit_v2 and of find_similar_outfit
\* is in exactly one of the two shapes: both searches only build the wardrobe
\* shape, with both wardrobe fields set and both suggestion links null, so no
\* MatchedItem has both groups set or both groups null.
C16_OneShapePerMatchedItem ==
    \A r \in Ranked \cup Returned : \A m \in Matches(r) : WardrobeShape(m)

\* C16 witness: a search returned a MatchedItem for the second wardrobe item
\* (wardrobe_image_index 1).
C16_Witness ==
    /\ pc = "done"
    /\ \E r \in Returned : \E m \in Matches(r) : m.wardrobe_image_index = 1

\* the outfits find_similar_outfit_v2 has gone through
Processed ==
    IF mode = "v2" /\ pc \in {"rank", "done"}
    THEN { candidates[i] : i \in 1..(k - 1) }
    ELSE {}

\* the wardrobe indices matched to the items of the outfit before item i
UsedBefore(matches, i) ==
    { matches[n].wardrobe_image_index + 1 :
        n \in { a \in 1..Len(matches) : matches[a].outfit_item_id[2] < i } }

\* C20: in find_similar_outfit_v2 every outfit item for which, when its turn
\* comes, the wardrobe holds an item of its clothing type that no earlier item
\* of the outfit was matched to, gets a MatchedItem, whatever the similarity.
C20_EligibleItemIsMatched ==
    \A o \in Processed :
        LET records == GetOutfitVectors(outfit_collection, o)
            matches == V2Entry(o).matches
        IN  \A i \in 1..Len(records) :
                (\E j \in 1..Len(images) :
                     Eligible(WardrobeTypes(images), UsedBefore(matches, i), j,
                              ClothingTypeOf(records[i])))
                => \E n \in 1..Len(matches) : matches[n].outfit_item_id = records[i].id

\* C12: in upload_image, delete_image and delete_outfit no failure of the
\* vector-index step ends the request in an error: the step that makes the
\* index calls either goes on to the next step or ends the request with a
\* success status.
C12_IndexFailureDoesNotEndRequest ==
    [][ \A s \in Slots :
          ( /\ requests[s].op \in {"upload_image", "delete_image", "delete_outfit"}
            /\ requests[s].pc = "index"
            /\ requests'[s].pc = "done" )
          => requests'[s].status < 400 ]_vars

\* C13: every point of the outfit collection carries the outfit_id of an
\* Outfit row that exists.
C13_PointsReferToOutfitRows ==
    \A o \in OutfitIds : outfit_collection[o] # << >> => outfit_table[o] \in UserIds

Selected(selector) == IF selector \in CollectionNames THEN selector ELSE "outfit"

Present(point_id, selector) ==
    \E p \in index[Selected(selector)] : p.id = point_id

\* C17: get_point returns the stored point when the id is in the selected
\* collection and raises ValueError when the retrieve call returns nothing;
\* point_exists returns True exactly when get_point returns a point and False
\* exactly when it raises that ValueError; neither changes a collection.
C17_GetPointAndPointExists ==
    /\ (reply.op = "get_point" /\ reply.raised # "UnexpectedResponse") =>
          /\ index = reply.before
          /\ IF Present(reply.point_id, reply.selector)
             THEN /\ reply.raised = Null
                  /\ \E p \in index[Selected(reply.selector)] :
                        p.id = reply.point_id /\ reply.value = Record(p)
             ELSE reply.raised = "ValueError"
    /\ (reply.op = "point_exists" /\ reply.raised # "UnexpectedResponse") =>
          /\ index = reply.before
          /\ reply.raised = Null
          /\ reply.value = Present(reply.point_id, reply.selector)

\* C17 witness: point_exists answered False for an id that the wardrobe
\* collection lacks and the outfit collection holds.
C17_Witness ==
    /\ reply.op = "point_exists" /\ reply.selector = "wardrobe"
    /\ reply.raised = Null
    /\ reply.value = FALSE
    /\ \E p \in index["outfit"] : p.id = reply.point_id

\* C18: upsert_vectors, search_vectors, get_point and delete_point called
\* without a collection selector work on the outfit collection and leave the
\* wardrobe collection as it was; called with a selector they work on the
\* selected collection and leave the other one as it was.
C18_OnlyTheSelectedCollection ==
    reply.op # Null =>
        LET c == Selected(reply.selector)
        IN  /\ \A d \in CollectionNames \ {c} : index[d] = reply.before[d]
            /\ (reply.op = "upsert_vectors" /\ reply.raised = Null) =>
                  /\ reply.points \subseteq index[c]
                  /\ index[c] \subseteq reply.before[c] \cup reply.points
            /\ (reply.op = "search_vectors" /\ reply.raised = Null) =>
                  reply.value \subseteq index[c]
            /\ (reply.op = "get_point" /\ reply.raised = Null) =>
                  \E p \in index[c] : reply.value = Record(p)
            /\ (reply.op = "delete_point" /\ reply.value = TRUE) =>
                  /\ ~Present(reply.point_id, reply.selector)
                  /\ index[c] \subseteq reply.before[c]

\* C18 witness: an upsert with the wardrobe selector put a point into the
\* wardrobe collection while the outfit collection holds another point.
C18_Witness ==
    /\ reply.op = "upsert_vectors" /\ reply.selector = "wardrobe"
    /\ reply.raised = Null
    /\ index["outfit"] # {}
    /\ index["wardrobe"] \cap index["outfit"] = {}

\* the number of detections of the class of detection i that come before it
EarlierOfClass(i) ==
    Cardinality({ j \in 1..(i - 1) : label[j].cls = label[i].cls })

RECURSIVE AloneFrom(_, _, _, _, _, _)
AloneFrom(search, imgs, names, order, i, acc) ==
    IF i > Len(order) THEN acc
    ELSE AloneFrom(search, imgs, names, order, i + 1,
                   acc \o Entries(search, outfit_collection, imgs, names, order[i]))

Alone(search, imgs, names, order, limit) ==
    RankAndTruncate(AloneFrom(search, imgs, names, order, 1, << >>), limit)

BuiltV2 == IF mode = "v2" THEN Ranked \cup Returned ELSE {}

\* the similarity of wardrobe item j to the outfit item a MatchedItem names
SimilarityTo(m, j) == Dot(wardrobe_embeddings[j], ItemOf(m).vec)

\* the wardrobe items admitted for the outfit item of the n-th match of r: of
\* its clothing type and not matched to an earlier item of the outfit
Admitted(r, n) ==
    { j \in 1..Len(images) :
        Eligible(WardrobeTypes(images), UsedBefore(r.matches, r.matches[n].outfit_item_id[2]),
                 j, ClothingTypeOf(GetOutfitVectors(outfit_collection, r.outfit_id)
                                     [r.matches[n].outfit_item_id[2]])) }

\* C21: in find_similar_outfit_v2 the matches of an outfit follow the order of
\* the outfit's items in the index, and the wardrobe item of each match is
\* admitted for its outfit item, has the maximum similarity among the admitted
\* wardrobe items, is the lowest index among those of maximum similarity, and
\* the recorded score is that similarity.
C21_BestAdmittedLowestIndex ==
    \A r \in BuiltV2 :
        /\ \A a, b \in 1..Len(r.matches) :
             a < b => r.matches[a].outfit_item_id[2] < r.matches[b].outfit_item_id[2]
        /\ \A n \in 1..Len(r.matches) :
             LET m == r.matches[n]
                 idx == m.wardrobe_image_index + 1
             IN  /\ idx \in Admitted(r, n)
                 /\ m.score = SimilarityTo(m, idx)
                 /\ \A j \in Admitted(r, n) :
                      /\ SimilarityTo(m, j) <= m.score
                      /\ j < idx => SimilarityTo(m, j) < m.score

\* C21 witness: find_similar_outfit_v2 returned a match whose outfit item had
\* two admitted wardrobe items of equal, maximum similarity, and a match made
\* after an earlier item of the same outfit had taken a wardrobe item.
C21_Witness ==
    /\ pc = "done" /\ mode = "v2"
    /\ \E r \in Returned :
         /\ \E n \in 1..Len(r.matches) :
              \E j \in Admitted(r, n) :
                  /\ j # r.matches[n].wardrobe_image_index + 1
                  /\ SimilarityTo(r.matches[n], j) = r.matches[n].score
         /\ \E n \in 1..Len(r.matches) :
              UsedBefore(r.matches, r.matches[n].outfit_item_id[2]) # {}

\* the points search_vectors returns for wardrobe item j: the points of the
\* outfit collection scoring at least score_threshold (fewer than the limit)
Neighbours(j) ==
    { p \in AllPoints(outfit_collection) :
        ClearsThreshold(wardrobe_embeddings[j], p, score_threshold) }

\* the outfit ids in the payloads of the neighbours of all wardrobe items
NeighbourOutfitIds ==
    { p.payload.outfit_id : p \in UNION { Neighbours(j) : j \in 1..Len(wardrobe_embeddings) } }

NoRepeatedOutfit(outfits) ==
    \A a, b \in 1..Len(outfits) : a # b => outfits[a].outfit_id # outfits[b].outfit_id

SimilaritiesInRange ==
    \A j \in 1..Len(wardrobe_embeddings) :
        \A p \in AllPoints(outfit_collection) :
            Abs(Dot(wardrobe_embeddings[j], p.vector)) <= 1

\* the processed candidates that have indexed items
Scored ==
    { o \in { candidates[i] : i \in 1..(k - 1) } : outfit_collection[o] # << >> }

FullyMatched(o) == Len(V2Entry(o).matches) = Len(outfit_collection[o])

\* C23: in find_similar_outfit_v2 with similarities in [-1, 1], a candidate
\* all of whose outfit items are matched has a completeness_score strictly
\* greater than a candidate with an unmatched outfit item, the list being
\* built and the returned list carry these scores, and in the returned list
\* no outfit with a gap precedes a fully matched one.
C23_FullOutranksGapped ==
    (mode = "v2" /\ SimilaritiesInRange) =>
        /\ \A a, b \in Scored :
             (FullyMatched(a) /\ ~FullyMatched(b)) =>
                 Greater(Score(V2Entry(a)), Score(V2Entry(b)))
        /\ \A r \in Ranked \cup Returned :
             r.outfit_id \in Scored /\ r = V2Entry(r.outfit_id)
        /\ pc = "done" =>
             \A i, j \in 1..Len(result) :
                 (FullyMatched(result[i].outfit_id) /\ ~FullyMatched(result[j].outfit_id))
                 => i < j

\* C23 witness: find_similar_outfit_v2, with similarities in [-1, 1], went
\* through an outfit with a gap before a fully matched one and returned the
\* fully matched one first.
C23_Witness ==
    /\ pc = "done" /\ mode = "v2" /\ SimilaritiesInRange
    /\ Len(result) = 2
    /\ result[1].outfit_id = candidates[2]
    /\ result[2].outfit_id = candidates[1]
    /\ FullyMatched(result[1].outfit_id)
    /\ ~FullyMatched(result[2].outfit_id)

\* C24: every RecommendedOutfit find_similar_outfit_v2 builds or returns has
\* at least one entry in matches, and a processed candidate with indexed items
\* none of which found a wardrobe item is in neither list.
C24_ReturnedOutfitsHaveAMatch ==
    mode = "v2" =>
        /\ \A r \in Ranked \cup Returned : Len(r.matches) >= 1
        /\ \A o \in Scored :
             V2Entry(o).matches = << >> =>
                 \A r \in Ranked \cup Returned : r.outfit_id # o

\* C24 witness: find_similar_outfit_v2 went through two candidates with
\* indexed items, one of them without any match, and returned the other one
\* alone although limit_outfits allowed two.
C24_Witness ==
    /\ pc = "done" /\ mode = "v2"
    /\ limit_outfits = 2
    /\ Len(result) = 1
    /\ Cardinality(Scored) = 2
    /\ \E o \in Scored : V2Entry(o).matches = << >>

\* C25: at most one SavedOutfit row exists for each (user_id, outfit_id)
\* pair, whatever the interleaving of the save_outfit requests.
C25_OneRowPerUserAndOutfit ==
    \A user \in UserIds, outfit_id \in OutfitIds :
        Cardinality(SavedRows(user, outfit_id)) <= 1

\* C26: a save_outfit request for an outfit_id without an Outfit row is
\* answered 404 and a request for an outfit the user has saved is answered
\* 409, both without a new SavedOutfit row, unless the database call of the
\* step itself fails.
C26_NotFoundAndAlreadySaved ==
    [][ \A s \in Slots :
          (requests[s].op = "save_outfit" /\ requests'[s] # requests[s]
             /\ caught'[s] # "SQLAlchemyError") =>
              /\ (requests[s].pc = "get" /\ outfit_table[requests[s].target] \notin UserIds)
                   => (requests'[s].status = 404 /\ saved_table' = saved_table)
              /\ (requests[s].pc = "select"
                    /\ Cardinality(SavedRows(requests[s].user, requests[s].target)) = 1)
                   => (requests'[s].status = 409 /\ saved_table' = saved_table)
      ]_vars

\* C27: get_segment_images returns two lists of equal length in which the i-th
\* image is the crop of the item the i-th class name names, and every crop
\* split_outfit_to_clothes indexes carries the clothing type of the item it
\* shows.
C27_CropsAlignedWithNames ==
    /\ split.pc # "idle" =>
         /\ Len(split.segment_images) = Len(split.cloth_names)
         /\ \A i \in 1..Len(split.segment_images) :
              ClassNames[split.segment_images[i].crop_of] = split.cloth_names[i]
    /\ \A n \in 1..Len(split.clothing_info) :
         split.clothing_info[n].clothing_type =
             ClassNames[split.clothing_info[n].image.crop_of]

\* the delete_outfit request of slot s asks for an outfit that has no row or
\* whose row belongs to another user
NotOwnOutfit(s) ==
    /\ requests[s].op = "delete_outfit"
    /\ outfit_table[requests[s].target] # requests[s].user

\* C28: the step of a delete_outfit request that looks up an outfit without a
\* row, or with a row of another user, ends the request with 404 (500 when the
\* lookup itself fails) and changes neither the outfit collection nor the blob
\* store nor the Outfit table; and every step that deletes vectors, an object
\* or a row of an outfit is a step of a request of a user who owns or owned
\* that outfit.
C28_NotFoundLeavesStoresUnchanged ==
    [][ /\ \A s \in Slots :
             (NotOwnOutfit(s) /\ requests[s].pc = "get" /\ requests'[s] # requests[s]) =>
                 /\ requests'[s].pc = "done"
                 /\ requests'[s].status \in {404, 500}
                 /\ UNCHANGED << outfit_collection, outfit_files, outfit_table >>
        /\ \A o \in OutfitIds :
             (\/ (outfit_collection'[o] = << >> /\ outfit_collection[o] # << >>)
              \/ (o \in outfit_files /\ o \notin outfit_files')
              \/ (outfit_table[o] \in UserIds /\ outfit_table'[o] = "deleted")) =>
                 \E s \in Slots :
                     /\ requests[s].op = "delete_outfit"
                     /\ requests[s].target = o
                     /\ requests'[s] # requests[s]
                     /\ outfit_table[o] \in {requests[s].user, "deleted"}
      ]_vars

\* C28 witness: a delete_outfit request for another user's outfit, which has
\* vectors and an object, has ended with 404.
C28_Witness ==
    \E s \in Slots :
        /\ NotOwnOutfit(s)
        /\ requests[s].pc = "done" /\ requests[s].status = 404
        /\ outfit_table[requests[s].target] \in UserIds
        /\ outfit_collection[requests[s].target] # << >>
        /\ requests[s].target \in outfit_files

\* the object names of the Image rows the requesting user owns
OwnObjectNames == { ImageObjectName[i] : i \in { a \in ImageIds : image_table[a] = subset.user } }

\* the Image tables that give the requesting user the rows image_table gives
SameOwnRows ==
    { table \in [ImageIds -> UserIds \cup {Null}] :
        \A i \in ImageIds : (table[i] = subset.user) <=> (image_table[i] = subset.user) }

\* the object names the loop over the identifiers collects from a table
RECURSIVE NamesFrom(_, _)
NamesFrom(table, i) ==
    IF i > Len(subset.identifiers) THEN << >>
    ELSE LET object_name == LookupImage(table, subset.user, subset.id_type,
                                        subset.identifiers[i])
         IN  (IF object_name # Null THEN << object_name >> ELSE << >>)
             \o NamesFrom(table, i + 1)

\* C29: in search_similar_outfits_subset every object name collected for the
\* engine belongs to an Image row of the requesting user; the engine is called
\* with these names only; a finished request collected what it would have
\* collected from any Image table that agrees on the requesting user's rows;
\* and a request none of whose identifiers survives ends with 404 and without
\* a call of the engine.
C29_OnlyOwnImagesReachTheEngine ==
    /\ \A i \in 1..Len(subset.wardrobe_object_names) :
         subset.wardrobe_object_names[i] \in OwnObjectNames
    /\ subset.engine_called =>
         /\ subset.engine_names = subset.wardrobe_object_names
         /\ subset.engine_names # << >>
    /\ (subset.pc \in {"sample", "done"} /\ subset.status # 400) =>
         /\ \A table \in SameOwnRows :
              NamesFrom(table, 1) = subset.wardrobe_object_names
         /\ subset.wardrobe_object_names = << >> =>
              (subset.pc = "done" /\ subset.status = 404 /\ ~subset.engine_called)

\* C29 witness: the engine was called for a request by image ids that named
\* an image of the requesting user and an image of another user.
C29_Witness ==
    /\ subset.engine_called
    /\ subset.id_type = "image_id"
    /\ Len(subset.identifiers) = 2
    /\ Len(subset.engine_names) = 1
    /\ \E i \in 1..2 :
         /\ subset.identifiers[i] \in ImageIds
         /\ image_table[subset.identifiers[i]] \in UserIds \ {subset.user}

\* C30: when a detect-clothes request runs its detection, zip creation and
\* cleanup, the file it saved is still present, and its cleanup removes no
\* file another request has saved and not yet processed.
C30_RequestsKeepTheirOwnFiles ==
    [][ \A s \in Slots :
          (detect[s].pc = "read" /\ detect'[s].pc = "done") =>
              /\ TempPath(s) \in temp_files
              /\ \A t \in Slots \ {s} :
                   (detect[t].pc = "read" /\ TempPath(t) \in temp_files) =>
                       <<detect[t].temp_dir, detect[t].filename>> \in temp_files'
      ]_vars

====
